---- MODULE Spec2Model ----
(***************************************************************************)
(* Model of the pdfocr package of gardar/ocrchestra: the byte-level layer  *)
(* detector (detect.go), the Strict/Force policy of ApplyOCR and the page  *)
(* construction of both overlay operations (pdfocr.go, create.go).         *)
(*                                                                         *)
(* Go strings are TLA+ strings (Len, SubSeq and \o work on them).  Three   *)
(* bytes that have no printable spelling are named by characters that the  *)
(* inputs do not otherwise use: see BYTE_FE, BYTE_FF and BYTE_00.          *)
(***************************************************************************)
EXTENDS Integers, Sequences, FiniteSets, TLC

(***************************************************************************)
(* Strings                                                                 *)
(***************************************************************************)

\* the byte 0xFE, first byte of the UTF-16BE byte-order mark
BYTE_FE == "~"
\* the byte 0xFF, second byte of the UTF-16BE byte-order mark
BYTE_FF == "^"
\* the byte 0x00, high byte of a UTF-16 code unit below U+0100
BYTE_00 == "#"

\* s[i] as a one-character string, "" outside the string
At(s, i) == IF i >= 1 /\ i <= Len(s) THEN SubSeq(s, i, i) ELSE ""

\* s[i:] starts with lit
HasAt(s, i, lit) ==
    /\ i >= 1
    /\ i + Len(lit) - 1 <= Len(s)
    /\ SubSeq(s, i, i + Len(lit) - 1) = lit

\* strings.HasPrefix
HasPrefix(s, prefix) == HasAt(s, 1, prefix)

\* strings.Contains
Contains(s, substr) == \E i \in 1..(Len(s) + 1) : HasAt(s, i, substr)

\* regexp class \s: [\t\n\f\r ]
IsSpace(c) == c \in {" ", "\t", "\n", "\f", "\r"}

\* regexp class \d
IsDigit(c) == c \in {"0", "1", "2", "3", "4", "5", "6", "7", "8", "9"}

UpperLetters == "ABCDEFGHIJKLMNOPQRSTUVWXYZ"
LowerLetters == "abcdefghijklmnopqrstuvwxyz"

\* unicode.ToLower of one character
LowerChar(c) ==
    IF \E k \in 1..26 : At(UpperLetters, k) = c
    THEN At(LowerLetters, CHOOSE k \in 1..26 : At(UpperLetters, k) = c)
    ELSE c

RECURSIVE ToLower(_)
\* strings.ToLower
ToLower(s) ==
    IF s = "" THEN ""
    ELSE LowerChar(At(s, 1)) \o ToLower(SubSeq(s, 2, Len(s)))

RECURSIVE ReplaceAll(_, _, _)
\* strings.ReplaceAll for a non-empty old: non-overlapping, left to right
ReplaceAll(s, old, new) ==
    IF s = "" THEN ""
    ELSE IF HasAt(s, 1, old)
         THEN new \o ReplaceAll(SubSeq(s, Len(old) + 1, Len(s)), old, new)
         ELSE At(s, 1) \o ReplaceAll(SubSeq(s, 2, Len(s)), old, new)

\* unescapePDFString: three replacements applied one after the other
unescapePDFString(s) ==
    LET s1 == ReplaceAll(s, "\\(", "(")
        s2 == ReplaceAll(s1, "\\)", ")")
    IN  ReplaceAll(s2, "\\\\", "\\")

\* string(rune(hi<<8 | lo)): the UTF-8 spelling of one UTF-16 code unit.
\* A unit below U+0080 is the single byte lo; any other unit becomes a
\* multi-byte sequence, written here as the bracketed pair of its two
\* bytes (one spelling per code unit, different from every plain byte).
RuneString(hi, lo) ==
    IF hi = BYTE_00 /\ lo \notin {BYTE_FE, BYTE_FF}
    THEN lo
    ELSE "{" \o hi \o lo \o "}"

RECURSIVE DecodeUnits(_, _)
\* the loop of decodeUTF16BE: pairs of bytes, a trailing odd byte is dropped
DecodeUnits(b, i) ==
    IF i + 1 > Len(b) THEN ""
    ELSE RuneString(At(b, i), At(b, i + 1)) \o DecodeUnits(b, i + 2)

\* decodeUTF16BE: [ok, val]; fails when too short or without the BOM
decodeUTF16BE(b) ==
    IF Len(b) < 2 THEN [ok |-> FALSE, val |-> ""]
    ELSE IF At(b, 1) = BYTE_FE /\ At(b, 2) = BYTE_FF
         THEN [ok |-> TRUE, val |-> DecodeUnits(SubSeq(b, 3, Len(b)), 1)]
         ELSE [ok |-> FALSE, val |-> ""]

(***************************************************************************)
(* The six patterns of detectPDFLayers                                     *)
(***************************************************************************)

NoMatch == [ok |-> FALSE, cap |-> "", end |-> 0]

RECURSIVE SkipWS(_, _)
\* \s* (greedy): the position after the white space that starts at i
SkipWS(s, i) == IF IsSpace(At(s, i)) THEN SkipWS(s, i + 1) ELSE i

\* a literal followed by \s*: the position after both, 0 when it fails
LitWS(s, i, lit) ==
    IF i # 0 /\ HasAt(s, i, lit) THEN SkipWS(s, i + Len(lit)) ELSE 0

\* a literal: the position after it, 0 when it fails
Lit(s, i, lit) == IF i # 0 /\ HasAt(s, i, lit) THEN i + Len(lit) ELSE 0

RECURSIVE FirstClose(_, _)
\* the position of the first ")" at or after i, 0 when there is none
FirstClose(s, i) ==
    IF i > Len(s) THEN 0
    ELSE IF At(s, i) = ")" THEN i ELSE FirstClose(s, i + 1)

\* \(([^)]+)\) at i: the group is everything up to the first ")"
CapGroup(s, i) ==
    IF i = 0 \/ At(s, i) # "(" THEN NoMatch
    ELSE LET j == FirstClose(s, i + 1)
         IN  IF j = 0 \/ j = i + 1 THEN NoMatch
             ELSE [ok |-> TRUE, cap |-> SubSeq(s, i + 1, j - 1), end |-> j + 1]

\* /Type\s*/OCG\s*/Name\s*\(([^)]+)\)
Pattern1(s, i) ==
    CapGroup(s, LitWS(s, LitWS(s, LitWS(s, i, "/Type"), "/OCG"), "/Name"))

\* /Title\s*\(([^)]+)\)
Pattern2(s, i) == CapGroup(s, LitWS(s, i, "/Title"))

\* positions j >= from reachable over characters that are not in stop
\* and at which /Name\s*\(([^)]+)\) matches
NameAfter(s, from, stop) ==
    {j \in from..Len(s) :
        /\ \A k \in from..(j - 1) : At(s, k) \notin stop
        /\ CapGroup(s, LitWS(s, j, "/Name")).ok}

Min(S) == CHOOSE x \in S : \A y \in S : x <= y
Max(S) == CHOOSE x \in S : \A y \in S : x >= y

\* X*?/Name\s*\(([^)]+)\) at from (lazy: the nearest /Name that works)
LazyName(s, from, stop) ==
    IF from = 0 \/ NameAfter(s, from, stop) = {} THEN NoMatch
    ELSE CapGroup(s, LitWS(s, Min(NameAfter(s, from, stop)), "/Name"))

\* /OCG\s*<<[^>]*?/Name\s*\(([^)]+)\)
Pattern3(s, i) == LazyName(s, Lit(s, LitWS(s, i, "/OCG"), "<<"), {">"})

\* <</Type/OCG/Name\(([^)]+)\)
Pattern4(s, i) == CapGroup(s, Lit(s, i, "<</Type/OCG/Name"))

\* positions j >= from, reachable over characters other than newline, at
\* which /OCGs\s*\[\s*.*?/Name\s*\(([^)]+)\) matches
OCGsAfter(s, from) ==
    {j \in from..Len(s) :
        /\ \A k \in from..(j - 1) : At(s, k) # "\n"
        /\ LazyName(s, LitWS(s, LitWS(s, j, "/OCGs"), "["), {"\n"}).ok}

\* /OCProperties.*?/OCGs\s*\[\s*.*?/Name\s*\(([^)]+)\)
Pattern5(s, i) ==
    LET a == Lit(s, i, "/OCProperties")
    IN  IF a = 0 \/ OCGsAfter(s, a) = {} THEN NoMatch
        ELSE LazyName(s, LitWS(s, LitWS(s, Min(OCGsAfter(s, a)), "/OCGs"), "["),
                      {"\n"})

\* the bound of [\s\S]{1,50}
MaxGap == 50

\* /Name\s*\(([^)]+)\)[\s\S]{1,50}/Type\s*/OCG
Pattern6(s, i) ==
    LET m    == CapGroup(s, LitWS(s, i, "/Name"))
        ends == {LitWS(s, m.end + k, "/Type") : k \in 1..MaxGap}
        full == {Lit(s, e, "/OCG") : e \in ends \ {0}} \ {0}
    IN  IF ~m.ok \/ full = {} THEN NoMatch
        ELSE [ok |-> TRUE, cap |-> m.cap, end |-> Max(full)]

NumPatterns == 6

\* ocgPatterns[k] tried at position i
MatchAt(k, s, i) ==
    CASE k = 1 -> Pattern1(s, i)
      [] k = 2 -> Pattern2(s, i)
      [] k = 3 -> Pattern3(s, i)
      [] k = 4 -> Pattern4(s, i)
      [] k = 5 -> Pattern5(s, i)
      [] OTHER -> Pattern6(s, i)

\* the positions at which ocgPatterns[k] matches
MatchStarts(k, s) == {j \in 1..Len(s) : MatchAt(k, s, j).ok}

RECURSIVE NextMatches(_, _, _, _)
\* the matches from position i on: the leftmost one, then those after its
\* end; the sequence of their first groups
NextMatches(k, s, starts, i) ==
    IF {j \in starts : j >= i} = {} THEN << >>
    ELSE LET m == MatchAt(k, s, Min({j \in starts : j >= i}))
         IN  <<m.cap>> \o NextMatches(k, s, starts, m.end)

\* regex.FindAllStringSubmatch(content, -1): leftmost matches, one after
\* the other, none overlapping; the sequence of their first groups
FindAll(k, s) == NextMatches(k, s, MatchStarts(k, s), 1)

Indices(seq) == 1..Len(seq)

\* layers = append(layers, unescapePDFString(match[1])) for every match
UnescapeAll(found) == [n \in Indices(found) |-> unescapePDFString(found[n])]

RECURSIVE PatternLoop(_, _)
\* the loop over ocgPatterns from pattern k on: the matches of every
\* pattern, patterns in their order, each unescaped
PatternLoop(k, content) ==
    IF k > NumPatterns THEN << >>
    ELSE UnescapeAll(FindAll(k, content)) \o PatternLoop(k + 1, content)

\* the layers slice after the pattern loop
RawLayers(content) == PatternLoop(1, content)

(***************************************************************************)
(* The PDF byte buffers the operations are called with                     *)
(***************************************************************************)

\* the longest PDF content, in declarations
MaxDecls == 2

\* values of OCRConfig.LayerName
BaseNames == {"OCR Text", "Text"}

\* what a PDF may declare: optional-content groups in the spellings the six
\* patterns look for, a document title, a name in UTF-16BE with its
\* byte-order mark, names with escaped and with balanced parentheses
Declarations ==
    { "/Type /OCG /Name (OCR Text)",
      "/Type /OCG /Name (OCR Text \\(Page 3\\))",
      "<</Type/OCG/Name(Text (Page 12))>>",
      "/Type /OCG /Name (OCR Text \\(Page 3 draft)",
      "/Type /OCG /Name (My OCR Notes)",
      "/OCG << /Name (OCR Text backup) >>",
      "/Title (Text)",
      "/Type /OCG /Name (~^#O#C#R# #T#e#x#t)",
      "/OCProperties <</OCGs [ /Name (ocr)]>>" }

PDFHeader == "%PDF\n"

RECURSIVE Bodies(_, _)
\* every sequence of at most n declarations of decls, one per line
Bodies(decls, n) ==
    IF n = 0 THEN {""}
    ELSE Bodies(decls, n - 1)
            \cup {b \o d \o "\n" : b \in Bodies(decls, n - 1), d \in decls}

\* PDF byte buffers: the empty buffer and a header followed by declarations
PDFs(decls) == {""} \cup {PDFHeader \o b : b \in Bodies(decls, MaxDecls)}

\* the PDFs ApplyOCR is called with: the empty buffer, a PDF without
\* layers, one with a layer of no interest, with a soft match, with a name
\* that only the pattern accepts, with an exact match, and with a soft match
\* followed by an exact match
ApplyPDFs ==
    { "",
      PDFHeader,
      PDFHeader \o "/Name (Background) /Type /OCG\n",
      PDFHeader \o "/Type /OCG /Name (My OCR Notes)\n",
      PDFHeader \o "/Type /OCG /Name (OCR Text \\(Page 3 draft)\n",
      PDFHeader \o "/Type /OCG /Name (OCR Text)\n",
      PDFHeader \o "/Type /OCG /Name (My OCR Notes)\n/Type /OCG /Name (OCR Text)\n" }

\* RawLayers tabulated over the PDFs the operations are called with
RawLayersOf == [pdf \in PDFs(Declarations) \cup ApplyPDFs |-> RawLayers(pdf)]

\* RawLayers, looked up in the table for the PDFs it holds
RawLayersFor(pdf) == IF pdf \in DOMAIN RawLayersOf THEN RawLayersOf[pdf] ELSE RawLayers(pdf)

(***************************************************************************)
(* detectPDFLayers after the pattern loop                                  *)
(***************************************************************************)

\* a layer that starts with the byte-order mark is replaced by its decoding
DecodeLayer(layer) ==
    IF Len(layer) >= 2 /\ At(layer, 1) = BYTE_FE /\ At(layer, 2) = BYTE_FF
       /\ decodeUTF16BE(layer).ok
    THEN decodeUTF16BE(layer).val
    ELSE layer

\* the decoding loop over the layers slice
DecodeAll(layers) == [n \in Indices(layers) |-> DecodeLayer(layers[n])]

RECURSIVE Deduplicate(_, _)
\* the unique/seen loop: the first occurrence of every value, in order
Deduplicate(layers, seen) ==
    IF layers = << >> THEN << >>
    ELSE IF Head(layers) \in seen
         THEN Deduplicate(Tail(layers), seen)
         ELSE <<Head(layers)>> \o Deduplicate(Tail(layers), seen \cup {Head(layers)})

\* detectPDFLayers that removes duplicates before it decodes
detectPDFLayers_DedupFirst(pdfData) ==
    IF Len(pdfData) = 0
    THEN [err |-> "empty PDF data", layers |-> << >>]
    ELSE [err |-> "", layers |-> DecodeAll(Deduplicate(RawLayersFor(pdfData), {}))]

\* detectPDFLayers: [err, layers]; RawLayersFor(pdfData) is RawLayers(pdfData)
detectPDFLayers(pdfData) ==
    IF Len(pdfData) = 0
    THEN [err |-> "empty PDF data", layers |-> << >>]
    ELSE [err |-> "", layers |-> Deduplicate(DecodeAll(RawLayersFor(pdfData)), {})]

(***************************************************************************)
(* CheckExistingOCRLayers and DetectOCR                                    *)
(***************************************************************************)

\* PageLayerMatch that accepts whatever starts with the layer name
PageLayerMatch_PrefixOnly(layer, ocrLayerName) == HasPrefix(layer, ocrLayerName)

\* pageLayerPattern of CheckExistingOCRLayers:
\*   ^<QuoteMeta(ocrLayerName)>\s*\(Page\s*\d+.*
\* (the trailing .* matches the empty string, so anything may follow the
\* first digit)
PageLayerMatch(layer, ocrLayerName) ==
    LET a == LitWS(layer, 1, ocrLayerName)
        b == LitWS(layer, Lit(layer, a, "("), "Page")
    IN  b # 0 /\ IsDigit(At(layer, b))

RECURSIVE SkipDigits(_, _)
\* \d* (greedy)
SkipDigits(s, i) == IF IsDigit(At(s, i)) THEN SkipDigits(s, i + 1) ELSE i

\* pageLayerPattern of the unexported checkExistingOCRLayers:
\*   ^<QuoteMeta(ocrLayerName)>(\s*\(Page\s*\d+\))?$
StrictPageLayerMatch(layer, ocrLayerName) ==
    LET a == Lit(layer, 1, ocrLayerName)
        b == LitWS(layer, Lit(layer, SkipWS(layer, a), "("), "Page")
        c == IF b # 0 /\ IsDigit(At(layer, b)) THEN SkipDigits(layer, b) ELSE 0
    IN  \/ a = Len(layer) + 1
        \/ /\ a # 0
           /\ Lit(layer, c, ")") = Len(layer) + 1

MightContainOCR == "Existing layer detected that might contain OCR: "

\* the first two tests of the loop body: exact match, then the pattern
IsHardMatch(layer, ocrLayerName) ==
    layer = ocrLayerName \/ PageLayerMatch(layer, ocrLayerName)

\* IsSoftMatch that looks for "ocr" without lowering the case
IsSoftMatch_CaseSensitive(layer, ocrLayerName) ==
    Contains(layer, "ocr") /\ ~HasPrefix(layer, ocrLayerName)

\* the third test of the loop body
IsSoftMatch(layer, ocrLayerName) ==
    Contains(ToLower(layer), "ocr") /\ ~HasPrefix(layer, ocrLayerName)

EmptyLayerCheck ==
    [Layers |-> << >>, HasOCRLayer |-> FALSE, OCRLayerName |-> "", Warnings |-> << >>]

RECURSIVE CheckLoop_NoBreak(_, _, _, _)
\* CheckLoop without the break: the last hard match is the one recorded
CheckLoop_NoBreak(layers, i, ocrLayerName, result) ==
    IF i > Len(layers) THEN result
    ELSE CheckLoop_NoBreak(layers, i + 1, ocrLayerName,
             IF layers[i] = ocrLayerName \/ PageLayerMatch(layers[i], ocrLayerName)
             THEN [result EXCEPT !.HasOCRLayer = TRUE, !.OCRLayerName = layers[i]]
             ELSE result)

RECURSIVE CheckLoop(_, _, _, _)
\* the loop over layers, from index i on, with the result built so far
CheckLoop(layers, i, ocrLayerName, result) ==
    IF i > Len(layers) THEN result
    ELSE IF IsHardMatch(layers[i], ocrLayerName)
         THEN [result EXCEPT !.HasOCRLayer = TRUE, !.OCRLayerName = layers[i]]
         ELSE CheckLoop(layers, i + 1, ocrLayerName,
                  IF IsSoftMatch(layers[i], ocrLayerName)
                  THEN [result EXCEPT !.Warnings =
                            Append(@, MightContainOCR \o layers[i])]
                  ELSE result)

\* CheckExistingOCRLayers once detectPDFLayers has returned d: [err, res]
CheckDetected(d, ocrLayerName) ==
    IF d.err # ""
    THEN [err |-> "cannot analyze layers: " \o d.err, res |-> EmptyLayerCheck]
    ELSE [err |-> "",
          res |-> CheckLoop(d.layers, 1, ocrLayerName,
                            [EmptyLayerCheck EXCEPT !.Layers = d.layers])]

\* CheckExistingOCRLayers: [err, res]
CheckExistingOCRLayers(pdfData, ocrLayerName) ==
    CheckDetected(detectPDFLayers(pdfData), ocrLayerName)

\* checkExistingOCRLayers (second half of detect.go): the same loop with the
\* exact pattern; nothing in the package calls it
RECURSIVE checkLoopStrict(_, _, _, _)
checkLoopStrict(layers, i, ocrLayerName, result) ==
    IF i > Len(layers) THEN result
    ELSE IF layers[i] = ocrLayerName \/ StrictPageLayerMatch(layers[i], ocrLayerName)
         THEN [result EXCEPT !.HasOCRLayer = TRUE, !.OCRLayerName = layers[i]]
         ELSE checkLoopStrict(layers, i + 1, ocrLayerName,
                  IF IsSoftMatch(layers[i], ocrLayerName)
                  THEN [result EXCEPT !.Warnings =
                            Append(@, MightContainOCR \o layers[i])]
                  ELSE result)

\* some warning of the sequence contains substr
AnyContains(warnings, substr) ==
    \E n \in Indices(warnings) : Contains(warnings[n], substr)

\* DetectOCR once CheckExistingOCRLayers has returned c; err is always ""
DetectChecked(c) ==
    LET hasLayerOCR == c.err = "" /\ c.res.HasOCRLayer
        warnings ==
            IF c.err # ""
            THEN <<"Layer detection error: " \o c.err>>
            ELSE c.res.Warnings \o
                 (IF ~c.res.HasOCRLayer /\ Len(c.res.Warnings) > 0
                     /\ AnyContains(c.res.Warnings, "might contain OCR")
                  THEN <<"Potential OCR layers were detected">>
                  ELSE << >>)
    IN  [err         |-> "",
         HasOCR      |-> hasLayerOCR,
         HasLayerOCR |-> hasLayerOCR,
         LayerInfo   |-> IF c.err # "" THEN EmptyLayerCheck ELSE c.res,
         Warnings    |-> warnings]

\* DetectOCR that hands the error of CheckExistingOCRLayers to its caller
DetectOCR_ReturnsError(pdfData, LayerName) ==
    LET c == CheckExistingOCRLayers(pdfData, LayerName)
    IN  [err         |-> c.err,
         HasOCR      |-> c.err = "" /\ c.res.HasOCRLayer,
         HasLayerOCR |-> c.err = "" /\ c.res.HasOCRLayer,
         LayerInfo   |-> IF c.err # "" THEN EmptyLayerCheck ELSE c.res,
         Warnings    |-> IF c.err # "" THEN << >> ELSE c.res.Warnings]

\* DetectOCR: [err, HasOCR, HasLayerOCR, LayerInfo, Warnings]
DetectOCR(pdfData, LayerName) ==
    DetectChecked(CheckExistingOCRLayers(pdfData, LayerName))

(***************************************************************************)
(* The hOCR model as the overlay operations use it                         *)
(***************************************************************************)

RECURSIVE Flatten(_)
\* the concatenation of a sequence of sequences
Flatten(seqs) == IF seqs = << >> THEN << >> ELSE Head(seqs) \o Flatten(Tail(seqs))

\* the words of the lines of a container, line after line
LineWords(lines) == Flatten([n \in Indices(lines) |-> lines[n].Words])

\* the words of one paragraph in the order drawOCRLayer visits them
ParagraphWords(par) == par.Words \o LineWords(par.Lines)

\* the words of one area in the order drawOCRLayer visits them
AreaWords(area) ==
    area.Words \o LineWords(area.Lines)
        \o Flatten([n \in Indices(area.Paragraphs) |-> ParagraphWords(area.Paragraphs[n])])

\* DrawnWords that leaves out the lines directly under the page
DrawnWords_NoPageLines(page) ==
    Flatten([n \in Indices(page.Areas) |-> AreaWords(page.Areas[n])])
        \o Flatten([n \in Indices(page.Paragraphs) |-> ParagraphWords(page.Paragraphs[n])])

\* every drawWord call of drawOCRLayer, in call order
DrawnWords(page) ==
    Flatten([n \in Indices(page.Areas) |-> AreaWords(page.Areas[n])])
        \o Flatten([n \in Indices(page.Paragraphs) |-> ParagraphWords(page.Paragraphs[n])])
        \o LineWords(page.Lines)

\* a character that ISO-8859-1 cannot encode (any rune above U+00FF)
RUNE_NON_LATIN1 == "$"

\* charmap.ISO8859_1.NewEncoder().String(text) succeeds
EncodesLatin1(text) == ~Contains(text, RUNE_NON_LATIN1)

Digits == "0123456789"

RECURSIVE Itoa(_)
\* the %d verb of fmt.Sprintf for a non-negative integer
Itoa(n) == IF n < 10 THEN At(Digits, n + 1)
           ELSE Itoa(n \div 10) \o At(Digits, (n % 10) + 1)

\* the divisor of the encoding threshold of drawOCRLayer
ThresholdDivisor == 10

\* drawOCRLayer with the threshold met by a tenth of the words
drawOCRLayer_AtLeastTenth(page, layerName, pageNum) ==
    LET words == DrawnWords(page)
        wordCount == Len(words)
        encodingErrors == Cardinality({n \in Indices(words) : ~EncodesLatin1(words[n].Text)})
    IN  [layer          |-> layerName \o " (Page " \o Itoa(pageNum) \o ")",
         wordCount      |-> wordCount,
         encodingErrors |-> encodingErrors,
         err            |-> IF wordCount > 0 /\ encodingErrors > 0
                               /\ encodingErrors >= wordCount \div ThresholdDivisor
                            THEN "character encoding issues in " \o Itoa(encodingErrors)
                                     \o " of " \o Itoa(wordCount) \o " words"
                            ELSE ""]

\* drawOCRLayer: [layer, wordCount, encodingErrors, err]
drawOCRLayer(page, layerName, pageNum) ==
    LET words == DrawnWords(page)
        wordCount == Len(words)
        encodingErrors == Cardinality({n \in Indices(words) : ~EncodesLatin1(words[n].Text)})
        formattedLayerName ==
            IF pageNum > 0 THEN layerName \o " (Page " \o Itoa(pageNum) \o ")"
            ELSE layerName
    IN  [layer          |-> formattedLayerName,
         wordCount      |-> wordCount,
         encodingErrors |-> encodingErrors,
         err            |-> IF wordCount > 0 /\ encodingErrors > 0
                               /\ encodingErrors > wordCount \div ThresholdDivisor
                            THEN "character encoding issues in " \o Itoa(encodingErrors)
                                     \o " of " \o Itoa(wordCount) \o " words"
                            ELSE ""]

\* detectImageType: [format, err]; image.DecodeConfig fails on data that is
\* no image (the empty buffer included)
detectImageType(data) ==
    IF data \in {"png", "jpeg"}
    THEN [format |-> IF data = "png" THEN "PNG" ELSE "JPEG", err |-> ""]
    ELSE [format |-> "", err |-> "failed to decode image config"]

\* the value of a nil []byte result
NilBytes == [nil |-> TRUE, pages |-> << >>]

\* pdf.Output: the document made of the pages added so far
OutputBytes(pages) == [nil |-> FALSE, pages |-> pages]

RECURSIVE GCD(_, _)
\* the greatest common divisor of two numbers that are not negative
GCD(a, b) == IF b = 0 THEN a ELSE GCD(b, a % b)

\* a font size, a width or a coordinate as the fraction num / den in lowest terms, for a
\* num that is not negative and a positive den
Fraction(num, den) == [num |-> num \div GCD(num, den), den |-> den \div GCD(num, den)]

\* what a division by zero leaves of a coordinate: x / 0 is an infinity or
\* no number, and its product with 0 is no number
NaN == [num |-> 0, den |-> 0]

\* (v / from) * to, without the rounding of the two operations
Rescaled(v, from, to) == IF from = 0 THEN NaN ELSE Fraction(v * to, from)

\* normalizeCoords: [x, y]
normalizeCoords(x, y, hocrW, hocrH, pdfW, pdfH) ==
    [x |-> Rescaled(x, hocrW, pdfW), y |-> Rescaled(y, hocrH, pdfH)]

\* the transform of modifyExistingPDF
identity(x, y) == [x |-> Fraction(x, 1), y |-> Fraction(y, 1)]

\* where createPDFFromImage has the words of a page placed: the transform
\* of the page applied to the corner X1, Y1 of every word drawn
PlacedNormalized(page) ==
    [n \in Indices(DrawnWords(page)) |->
        normalizeCoords(DrawnWords(page)[n].BBox.X1, DrawnWords(page)[n].BBox.Y1,
                        page.BBox.X2, page.BBox.Y2, page.BBox.X2, page.BBox.Y2)]

\* where modifyExistingPDF has the words of a page placed
PlacedIdentity(page) ==
    [n \in Indices(DrawnWords(page)) |->
        identity(DrawnWords(page)[n].BBox.X1, DrawnWords(page)[n].BBox.Y1)]

RECURSIVE createLoop(_, _, _, _, _)
\* the page loop of createPDFFromImage from the 0-based index i on
createLoop(hOCRData, imagesData, i, layerName, built) ==
    IF ~(i < Len(hOCRData.Pages) /\ i < Len(imagesData))
    THEN [out |-> OutputBytes(built), err |-> "", built |-> built]
    ELSE LET page == hOCRData.Pages[i + 1]
             img  == detectImageType(imagesData[i + 1].data)
             draw == drawOCRLayer(page, layerName, i + 1)
             new  == [model  |-> page.ID,
                      Wd     |-> page.BBox.X2,
                      Ht     |-> page.BBox.Y2,
                      source |-> 0,
                      image  |-> imagesData[i + 1].id,
                      layer  |-> draw.layer,
                      words  |-> draw.wordCount,
                      placed |-> PlacedNormalized(page)]
         IN  IF img.err # ""
             THEN [out |-> NilBytes, built |-> Append(built, new),
                   err |-> "failed to detect image type for image " \o Itoa(i)
                               \o ": " \o img.err]
             ELSE IF draw.err # ""
             THEN [out |-> NilBytes, built |-> Append(built, new),
                   err |-> "failed to draw OCR layer for page " \o Itoa(i + 1)
                               \o ": " \o draw.err]
             ELSE createLoop(hOCRData, imagesData, i + 1, layerName, Append(built, new))

\* createPDFFromImage: [out, err, built]
createPDFFromImage(hOCRData, imagesData, startFromPage, layerName) ==
    createLoop(hOCRData, imagesData, startFromPage - 1, layerName, << >>)

\* modifyExistingPDF that imports the source pages from the first one on
modifyExistingPDF_FromFirstPage(inputPDFData, hOCRData, startFromPage, layerName) ==
    LET pageOf(i) ==
            LET page == hOCRData.Pages[i + 1]
                draw == drawOCRLayer(page, layerName, i + 1)
            IN  [model  |-> page.ID,
                 Wd     |-> page.BBox.X2,
                 Ht     |-> page.BBox.Y2,
                 source |-> i + 1,
                 image  |-> 0,
                 layer  |-> draw.layer,
                 words  |-> draw.wordCount,
                 placed |-> PlacedIdentity(page)]
        built == [n \in Indices(hOCRData.Pages) |-> pageOf(n - 1)]
    IN  [out |-> OutputBytes(built), err |-> "", built |-> built]

\* modifyExistingPDF: [out, err, built]; the error of drawOCRLayer is dropped
modifyExistingPDF(inputPDFData, hOCRData, startFromPage, layerName) ==
    LET pageOf(i) ==
            LET page == hOCRData.Pages[i + 1]
                draw == drawOCRLayer(page, layerName, i + 1)
            IN  [model  |-> page.ID,
                 Wd     |-> page.BBox.X2,
                 Ht     |-> page.BBox.Y2,
                 source |-> i + startFromPage,
                 image  |-> 0,
                 layer  |-> draw.layer,
                 words  |-> draw.wordCount,
                 placed |-> PlacedIdentity(page)]
        built == [n \in Indices(hOCRData.Pages) |-> pageOf(n - 1)]
    IN  [out |-> OutputBytes(built), err |-> "", built |-> built]

(***************************************************************************)
(* hOCR markup.  A document is a sequence of nodes in document order; an   *)
(* element is [tag, class, id, title, text, kids], a text node has the tag *)
(* "#text" and its characters in text.  In the bytes of a document the     *)
(* attribute values stand between single quotes, as the template writes    *)
(* them.                                                                   *)
(***************************************************************************)

Element(tag, class, id, title, kids) ==
    [tag |-> tag, class |-> class, id |-> id, title |-> title, text |-> "", kids |-> kids]

TextNode(text) ==
    [tag |-> "#text", class |-> "", id |-> "", title |-> "", text |-> text, kids |-> << >>]

\* html.UnescapeString for the five named references of markup characters
UnescapeString(s) ==
    IF \A i \in 1..Len(s) : At(s, i) # "&" THEN s
    ELSE ReplaceAll(ReplaceAll(ReplaceAll(ReplaceAll(ReplaceAll(s,
             "&lt;", "<"), "&gt;", ">"), "&#39;", "'"), "&#34;", "\""), "&amp;", "&")

\* the value the tokenizer reads for an attribute written between single
\* quotes: it ends at the first single quote, and references are replaced
AttrVal(raw) ==
    LET quotes == {i \in 1..Len(raw) : At(raw, i) = "'"}
    IN  UnescapeString(IF quotes = {} THEN raw ELSE SubSeq(raw, 1, Min(quotes) - 1))

RECURSIVE ParseContent(_)
\* the nodes the parser builds from the characters between the tags of an
\* element: text with its references replaced, and an element for every
\* start tag among the characters, which takes what follows it as children
\* (every "<" of the inputs that starts a tag has its ">")
ParseContent(raw) ==
    LET opens == {i \in 1..Len(raw) :
                      /\ At(raw, i) = "<"
                      /\ Contains(LowerLetters \o UpperLetters, At(raw, i + 1))
                      /\ At(raw, i + 1) # ""}
        open  == Min(opens)
        close == Min({j \in open..Len(raw) : At(raw, j) = ">"})
    IN  IF raw = "" THEN << >>
        ELSE IF opens = {} THEN <<TextNode(UnescapeString(raw))>>
        ELSE (IF open > 1 THEN <<TextNode(UnescapeString(SubSeq(raw, 1, open - 1)))>>
              ELSE << >>)
             \o <<Element(SubSeq(raw, open + 1, close - 1), "", "", "",
                          ParseContent(SubSeq(raw, close + 1, Len(raw))))>>

RECURSIVE htmlParse(_)
\* html.Parse: the node tree of the bytes of a document
htmlParse(nodes) ==
    IF nodes = << >> THEN << >>
    ELSE (IF Head(nodes).tag = "#text" THEN ParseContent(Head(nodes).text)
          ELSE <<Element(Head(nodes).tag, AttrVal(Head(nodes).class), AttrVal(Head(nodes).id),
                         AttrVal(Head(nodes).title), htmlParse(Head(nodes).kids))>>)
         \o htmlParse(Tail(nodes))

\* strings.TrimSpace
TrimSpace(s) ==
    LET inked == {i \in 1..Len(s) : ~IsSpace(At(s, i))}
    IN  IF inked = {} THEN "" ELSE SubSeq(s, Min(inked), Max(inked))

RECURSIVE SplitAt(_, _)
\* the parts of s between the characters of the set seps; Split keeps the
\* empty parts, Fields drops them
SplitAt(s, seps) ==
    LET cuts == {i \in 1..Len(s) : At(s, i) \in seps}
    IN  IF cuts = {} THEN <<s>>
        ELSE <<SubSeq(s, 1, Min(cuts) - 1)>> \o SplitAt(SubSeq(s, Min(cuts) + 1, Len(s)), seps)

\* strings.Fields
Fields(s) == SelectSeq(SplitAt(s, {" ", "\t", "\n", "\f", "\r"}), LAMBDA part : part # "")

\* the fields of every part of a title that has one
TitleParts(split) ==
    SelectSeq([n \in Indices(split) |-> Fields(split[n])], LAMBDA items : Len(items) > 0)

\* result[key] = values for the parts in their order: of two parts with the
\* same key the later one stays
TitleProps(parts) ==
    [key \in {parts[n][1] : n \in Indices(parts)} |->
        Tail(parts[Max({n \in Indices(parts) : parts[n][1] = key})])]

\* ParseTitle: the values of every key of a title attribute
ParseTitle(title) == TitleProps(TitleParts(SplitAt(title, {";"})))

RECURSIVE ParseDigits(_, _)
\* the number the decimal digits of str spell, read after the value acc
ParseDigits(str, acc) ==
    IF str = "" THEN acc
    ELSE ParseDigits(SubSeq(str, 2, Len(str)),
                     10 * acc + (CHOOSE d \in 0..9 : At(Digits, d + 1) = At(str, 1)))

\* strconv.ParseFloat with its error dropped, for numbers without sign,
\* point or exponent: anything else gives 0
ParseFloat(str) ==
    IF str # "" /\ \A i \in 1..Len(str) : IsDigit(At(str, i)) THEN ParseDigits(str, 0) ELSE 0

\* NewBoundingBox of the four numbers after bbox; the zero box for a title
\* without them (ParseBoundingBoxFromTitle returns nil and the field stays)
BoxOfProps(props) ==
    IF "bbox" \in DOMAIN props /\ Len(props["bbox"]) >= 4
    THEN [X1 |-> ParseFloat(props["bbox"][1]), Y1 |-> ParseFloat(props["bbox"][2]),
          X2 |-> ParseFloat(props["bbox"][3]), Y2 |-> ParseFloat(props["bbox"][4])]
    ELSE [X1 |-> 0, Y1 |-> 0, X2 |-> 0, Y2 |-> 0]

ParseBoundingBoxFromTitle(title) == BoxOfProps(ParseTitle(title))

\* the first of kinds that the class attribute of an element contains, ""
\* for none of them and for a text node
KindOf(node, kinds) ==
    LET found == {k \in Indices(kinds) : Contains(node.class, kinds[k])}
    IN  IF node.tag = "#text" \/ found = {} THEN "" ELSE kinds[Min(found)]

RECURSIVE collectNodes(_, _, _)
\* the collectNodes closures of processPage, processArea and
\* processParagraph and extractWords of processLine: the elements of the
\* kind want, in document order, looked for below the elements of no kind
collectNodes(nodes, kinds, want) ==
    IF nodes = << >> THEN << >>
    ELSE (IF KindOf(Head(nodes), kinds) = want THEN <<Head(nodes)>>
          ELSE IF KindOf(Head(nodes), kinds) # "" THEN << >>
          ELSE collectNodes(Head(nodes).kids, kinds, want))
         \o collectNodes(Tail(nodes), kinds, want)

RECURSIVE extractTextContent(_)
\* extractTextContent: the trimmed text of a node and of what is below it
extractTextContent(n) ==
    LET RECURSIVE below(_)
        below(nodes) ==
            IF nodes = << >> THEN ""
            ELSE extractTextContent(Head(nodes)) \o below(Tail(nodes))
    IN  IF n.tag = "#text" THEN TrimSpace(n.text) ELSE TrimSpace(below(n.kids))

RECURSIVE Join(_, _)
\* strings.Join
Join(elems, sep) ==
    IF elems = << >> THEN ""
    ELSE IF Len(elems) = 1 THEN elems[1]
    ELSE elems[1] \o sep \o Join(Tail(elems), sep)

\* the loop "for k, v := range props" that stores the values of every key
\* but those of the set typed, joined by spaces, in the Metadata map
OtherProps(props, typed) == [k \in (DOMAIN props) \ typed |-> Join(props[k], " ")]

\* a Metadata map that was made and never written
EmptyMetadata == [k \in {} |-> ""]

processWord(n) ==
    [ID       |-> n.id,
     Text     |-> IF n.kids = << >> THEN "" ELSE extractTextContent(n),
     BBox     |-> ParseBoundingBoxFromTitle(n.title),
     Metadata |-> OtherProps(ParseTitle(n.title), {"bbox", "x_wconf", "lang"})]

processLine(n) ==
    LET words == collectNodes(n.kids, <<"ocrx_word">>, "ocrx_word")
    IN  [ID       |-> n.id,
         BBox     |-> ParseBoundingBoxFromTitle(n.title),
         Metadata |-> OtherProps(ParseTitle(n.title), {"bbox", "baseline"}),
         Words    |-> [k \in Indices(words) |-> processWord(words[k])]]

processParagraph(n) ==
    LET lines == collectNodes(n.kids, <<"ocr_line", "ocrx_word">>, "ocr_line")
        words == collectNodes(n.kids, <<"ocr_line", "ocrx_word">>, "ocrx_word")
    IN  [ID       |-> n.id,
         BBox     |-> ParseBoundingBoxFromTitle(n.title),
         Metadata |-> OtherProps(ParseTitle(n.title), {"bbox"}),
         Lines    |-> [k \in Indices(lines) |-> processLine(lines[k])],
         Words    |-> [k \in Indices(words) |-> processWord(words[k])]]

processArea(n) ==
    LET pars  == collectNodes(n.kids, <<"ocr_par", "ocr_line", "ocrx_word">>, "ocr_par")
        lines == collectNodes(n.kids, <<"ocr_par", "ocr_line", "ocrx_word">>, "ocr_line")
        words == collectNodes(n.kids, <<"ocr_par", "ocr_line", "ocrx_word">>, "ocrx_word")
    IN  [ID         |-> n.id,
         BBox       |-> ParseBoundingBoxFromTitle(n.title),
         Metadata   |-> OtherProps(ParseTitle(n.title), {"bbox"}),
         Paragraphs |-> [k \in Indices(pars) |-> processParagraph(pars[k])],
         Lines      |-> [k \in Indices(lines) |-> processLine(lines[k])],
         Words      |-> [k \in Indices(words) |-> processWord(words[k])]]

\* processPage: areas, paragraphs and lines are collected below the page
\* element; Page has no field for words.  Of the title the box, the image
\* and the page number are read, and nothing is stored in Metadata
processPage(n) ==
    LET areas == collectNodes(n.kids, <<"ocr_carea", "ocr_par", "ocr_line">>, "ocr_carea")
        pars  == collectNodes(n.kids, <<"ocr_carea", "ocr_par", "ocr_line">>, "ocr_par")
        lines == collectNodes(n.kids, <<"ocr_carea", "ocr_par", "ocr_line">>, "ocr_line")
    IN  [ID         |-> n.id,
         BBox       |-> ParseBoundingBoxFromTitle(n.title),
         Metadata   |-> EmptyMetadata,
         Areas      |-> [k \in Indices(areas) |-> processArea(areas[k])],
         Paragraphs |-> [k \in Indices(pars) |-> processParagraph(pars[k])],
         Lines      |-> [k \in Indices(lines) |-> processLine(lines[k])]]

RECURSIVE findPages(_)
\* findPages: the div elements whose class contains ocr_page, not looked
\* for inside one another
findPages(nodes) ==
    IF nodes = << >> THEN << >>
    ELSE (IF Head(nodes).tag = "div" /\ Contains(Head(nodes).class, "ocr_page")
          THEN <<processPage(Head(nodes))>>
          ELSE findPages(Head(nodes).kids))
         \o findPages(Tail(nodes))

\* the bytes examined after "charset="
SnippetLen == 20

\* the least number of bytes after "charset=" for the snippet to be taken
SnippetGuard == 10

\* the charset branch of ParseHOCR on the bytes that follow the first
\* "charset=" of the document: [panic, encoding].  The slice of SnippetLen
\* bytes is out of range in a document that ends before it, and the index 0
\* is out of range when the snippet holds separators only.
DeclaredEncoding(data) ==
    LET snippet == SubSeq(data.after, 1, SnippetLen)
        parts   == SelectSeq(SplitAt(snippet, {"\"", ";", "'", ">"}), LAMBDA part : part # "")
    IN  IF ~data.declared \/ Len(data.after) <= SnippetGuard
        THEN [panic |-> FALSE, encoding |-> "utf-8"]
        ELSE IF Len(data.after) < SnippetLen \/ parts = << >>
        THEN [panic |-> TRUE, encoding |-> ""]
        ELSE [panic |-> FALSE, encoding |-> ToLower(parts[1])]

\* the end of ParseHOCR, with the pages findPages has appended
ParsedPages(pages) ==
    [panic |-> FALSE,
     err   |-> IF Len(pages) = 0 THEN "no ocr_page elements found in HOCR data" ELSE "",
     hocr  |-> [Pages |-> pages]]

\* ParseHOCR: [panic, err, hocr].  data is [declared, after, nodes]: whether
\* the bytes hold "charset=", the bytes after it, and the markup; the bytes
\* of the inputs are ASCII, which the ISO 8859-1 decoder leaves as they are
ParseHOCR(data) ==
    IF DeclaredEncoding(data).panic
    THEN [panic |-> TRUE, err |-> "", hocr |-> [Pages |-> << >>]]
    ELSE ParsedPages(findPages(htmlParse(data.nodes)))

\* the type switch on hocrInput of both operations: [err, hocr]
ResolveHOCR(hocrInput) ==
    CASE hocrInput.kind = "bytes" ->
            LET p == ParseHOCR(hocrInput.data)
            IN  IF p.err # ""
                THEN [err |-> "failed to parse HOCR data: " \o p.err, hocr |-> [Pages |-> << >>]]
                ELSE [err |-> "", hocr |-> p.hocr]
      [] hocrInput.kind = "struct" ->
            IF hocrInput.isNil
            THEN [err |-> "HOCR struct is nil", hocr |-> [Pages |-> << >>]]
            ELSE [err |-> "", hocr |-> hocrInput.hocr]
      [] OTHER ->
            [err |-> "unsupported HOCR input type: " \o hocrInput.kind, hocr |-> [Pages |-> << >>]]

(***************************************************************************)
(* AssembleWithOCR and ApplyOCR                                            *)
(***************************************************************************)

\* an error return: nil bytes, nothing constructed, nothing logged
Fail(msg) ==
    [out |-> NilBytes, err |-> msg, built |-> << >>, started |-> FALSE,
     log |-> << >>, warnings |-> << >>, blockers |-> << >>]

\* FirstBadImage that looks at the first image only
FirstBadImage_FirstOnly(imagesData) ==
    IF Len(imagesData) > 0
       /\ (\/ Len(imagesData[1].data) = 0
           \/ detectImageType(imagesData[1].data).err # "")
    THEN 1 ELSE 0

\* the first image the validation loop rejects, 0 when it accepts all
FirstBadImage(imagesData) ==
    LET bad == {n \in Indices(imagesData) :
                    \/ Len(imagesData[n].data) = 0
                    \/ detectImageType(imagesData[n].data).err # ""}
    IN  IF bad = {} THEN 0 ELSE Min(bad)

\* AssembleInputCheck that does not compare the two lengths
AssembleInputCheck_AnyImageCount(hocr, imagesData, config) ==
    IF Len(hocr.Pages) = 0 THEN "HOCR data contains no pages"
    ELSE IF Len(imagesData) = 0 THEN "no image data provided"
    ELSE IF config.StartPage < 1
    THEN "start page must be at least 1, got " \o Itoa(config.StartPage)
    ELSE ""

\* the input validation of AssembleWithOCR, before the images are looked
\* at: the error message, "" when the inputs pass
AssembleInputCheck(hocr, imagesData, config) ==
    IF Len(hocr.Pages) = 0 THEN "HOCR data contains no pages"
    ELSE IF Len(imagesData) = 0 THEN "no image data provided"
    ELSE IF config.StartPage < 1
    THEN "start page must be at least 1, got " \o Itoa(config.StartPage)
    ELSE IF Len(imagesData) < Len(hocr.Pages)
    THEN "not enough images (" \o Itoa(Len(imagesData)) \o ") for HOCR pages ("
             \o Itoa(Len(hocr.Pages)) \o ")"
    ELSE ""

\* AssembleWithOCR (config.Debug = false)
AssembleWithOCR(hocrInput, imagesData, config) ==
    LET r == ResolveHOCR(hocrInput)
        v == AssembleInputCheck(r.hocr, imagesData, config)
        b == FirstBadImage(imagesData)
        c == createPDFFromImage(r.hocr, imagesData, config.StartPage, config.LayerName)
    IN  IF r.err # "" THEN Fail(r.err)
        ELSE IF v # "" THEN Fail(v)
        ELSE IF b # 0
        THEN Fail(IF Len(imagesData[b].data) = 0
                  THEN "image " \o Itoa(b) \o " is empty"
                  ELSE "image " \o Itoa(b) \o " has invalid format")
        ELSE IF c.err # ""
        THEN [Fail("error creating PDF from images: " \o c.err)
                 EXCEPT !.built = c.built, !.started = TRUE]
        ELSE [Fail("") EXCEPT !.out = c.out, !.built = c.built, !.started = TRUE]

\* "file already has OCR" with the layer name when there is one
OCRMessage(ocrLayerName) ==
    "file already has OCR"
        \o (IF ocrLayerName # "" THEN " (layer '" \o ocrLayerName \o "')" ELSE "")

\* warnings and blockers collected from the result of DetectOCR
Collect(ocrResult) ==
    IF ocrResult.err # ""
    THEN [warnings |-> <<"OCR detection failed: " \o ocrResult.err>>,
          blockers |-> <<"OCR detection failed: " \o ocrResult.err>>,
          hasOCR   |-> FALSE]
    ELSE IF ocrResult.HasOCR
    THEN [warnings |-> Append(ocrResult.Warnings, OCRMessage(ocrResult.LayerInfo.OCRLayerName)),
          blockers |-> <<OCRMessage(ocrResult.LayerInfo.OCRLayerName)>>,
          hasOCR   |-> TRUE]
    ELSE [warnings |-> ocrResult.Warnings, blockers |-> << >>, hasOCR |-> FALSE]

\* ShouldStop without the Force override
ShouldStop_StrictOnly(blockers, config) ==
    Len(blockers) > 0 /\ config.Strict

\* the condition of the early return "set Force option to override"
ShouldStop(blockers, config) ==
    Len(blockers) > 0 /\ config.Strict /\ ~config.Force

\* LogLines that stays silent about the warnings when Force is set
LogLines_QuietUnderForce(col, layers, config) ==
    IF ~config.LogWarnings THEN << >>
    ELSE IF config.Force
    THEN <<"Force mode enabled: proceeding regardless of OCR detection issues">>
    ELSE [n \in Indices(col.warnings) |-> "Warning: " \o col.warnings[n]]

\* what ApplyOCR writes to the logger when it proceeds (config.Debug = false)
LogLines(col, layers, config) ==
    IF ~config.LogWarnings THEN << >>
    ELSE (IF config.Force /\ Len(col.blockers) > 0
          THEN <<"Force mode enabled: proceeding regardless of OCR detection issues">>
          ELSE << >>)
      \o (IF Len(layers) > 0
          THEN <<"Existing layers detected in PDF:">>
                   \o [n \in Indices(layers) |-> "  " \o Itoa(n) \o ". " \o layers[n]]
          ELSE << >>)
      \o [n \in Indices(col.warnings) |-> "Warning: " \o col.warnings[n]]
      \o (IF Len(col.blockers) > 0 /\ ~config.Strict
          THEN <<"Proceeding with OCR application (use Strict mode to prevent this)">>
          ELSE << >>)
      \o (IF col.hasOCR /\ config.Force
          THEN <<"Proceeding due to Force mode (may result in duplicate OCR data)">>
          ELSE << >>)

\* ApplyInputCheck that lets an empty PDF buffer through
ApplyInputCheck_AcceptsEmpty(inputPDFData, hocr, config) ==
    IF Len(hocr.Pages) = 0 THEN "HOCR data contains no pages"
    ELSE IF config.StartPage < 1
    THEN "start page must be at least 1, got " \o Itoa(config.StartPage)
    ELSE ""

\* the input validation of ApplyOCR: the error message, "" when the
\* inputs pass
ApplyInputCheck(inputPDFData, hocr, config) ==
    IF Len(inputPDFData) = 0 THEN "input PDF data is empty"
    ELSE IF Len(hocr.Pages) = 0 THEN "HOCR data contains no pages"
    ELSE IF config.StartPage < 1
    THEN "start page must be at least 1, got " \o Itoa(config.StartPage)
    ELSE ""

\* ApplyOCR from the call of DetectOCR on, which returned ocrResult
ApplyDetected(inputPDFData, hocr, config, ocrResult) ==
    LET col == Collect(ocrResult)
        m   == modifyExistingPDF(inputPDFData, hocr, config.StartPage, config.LayerName)
        log == LogLines(col, ocrResult.LayerInfo.Layers, config)
    IN  IF ShouldStop(col.blockers, config)
        THEN [Fail(col.blockers[1] \o " - set Force option to override")
                 EXCEPT !.warnings = col.warnings, !.blockers = col.blockers]
        ELSE IF m.err # ""
        THEN [Fail("error modifying existing PDF: " \o m.err)
                 EXCEPT !.built = m.built, !.started = TRUE, !.log = log,
                        !.warnings = col.warnings, !.blockers = col.blockers]
        ELSE [Fail("") EXCEPT !.out = m.out, !.built = m.built, !.started = TRUE,
                              !.log = log, !.warnings = col.warnings,
                              !.blockers = col.blockers]

\* ApplyOCR (config.Debug = false, config.DumpPDF = false)
ApplyOCR(inputPDFData, hocrInput, config) ==
    LET r == ResolveHOCR(hocrInput)
        v == ApplyInputCheck(inputPDFData, r.hocr, config)
    IN  IF r.err # "" THEN Fail(r.err)
        ELSE IF v # "" THEN Fail(v)
        ELSE ApplyDetected(inputPDFData, r.hocr, config,
                           DetectOCR(inputPDFData, config.LayerName))

(***************************************************************************)
(* Inputs                                                                  *)
(***************************************************************************)

\* the longest hOCR model, in pages
MaxPages == 2
\* the longest image list
MaxImages == 3
\* the largest StartPage
MaxStartPage == 2

BBoxOf(w, h) == [X1 |-> 0, Y1 |-> 0, X2 |-> w, Y2 |-> h]

WordOf(text) == [Text |-> text, BBox |-> [X1 |-> 10, Y1 |-> 10, X2 |-> 200, Y2 |-> 40]]

\* a page whose words all encode, and one of whose two words one does not
PageOfKind(id, kind) ==
    [ID         |-> id,
     BBox       |-> BBoxOf(600, 800),
     Areas      |-> << >>,
     Paragraphs |-> << >>,
     Lines      |-> << [Words |-> IF kind = "clean"
                                  THEN <<WordOf("Hello"), WordOf("world")>>
                                  ELSE <<WordOf("Hello"), WordOf("w$rld")>>] >>]

PageKinds == {"clean", "garbled"}

\* hOCR models of at most MaxPages pages; page k has the ID k
Models ==
    UNION {{[Pages |-> [k \in 1..n |-> PageOfKind(k, kinds[k])]] :
                kinds \in [1..n -> PageKinds]} : n \in 0..MaxPages}

\* boxes of a page: one that does not start at the origin, and the zero box
\* of a page without a bbox in its title
PageBoxes == {[X1 |-> 10, Y1 |-> 10, X2 |-> 610, Y2 |-> 810],
              [X1 |-> 0, Y1 |-> 0, X2 |-> 0, Y2 |-> 0]}

\* hOCR models of one page with such a box
BoxedModels ==
    {[Pages |-> << [PageOfKind(1, "clean") EXCEPT !.BBox = box] >>] : box \in PageBoxes}

\* the markup of the page k of the raw hOCR: one line of two words
PageMarkup(class, k) ==
    Element("div", class, "page_" \o Itoa(k), "bbox 0 0 600 800",
            << Element("span", "ocr_line", "line_" \o Itoa(k), "bbox 10 10 590 40",
                       << Element("span", "ocrx_word", "", "bbox 10 10 200 40",
                                  <<TextNode("Hello")>>),
                          Element("span", "ocrx_word", "", "bbox 210 10 400 40",
                                  <<TextNode("world")>>) >>) >>)

\* raw hOCR without a charset declaration: at most MaxPages div elements,
\* page elements and others
Markups ==
    UNION {{[declared |-> FALSE, after |-> "",
             nodes    |-> [k \in 1..n |-> PageMarkup(classes[k], k)]] :
                classes \in [1..n -> {"ocr_page", "ocr_carea"}]} : n \in 0..MaxPages}

\* the values of the hocrInput parameter
HocrInputs ==
    {[kind |-> "struct", isNil |-> FALSE, hocr |-> m, data |-> << >>] :
         m \in Models \cup BoxedModels}
        \cup {[kind |-> "struct", isNil |-> TRUE, hocr |-> [Pages |-> << >>], data |-> << >>]}
        \cup {[kind |-> "bytes", isNil |-> FALSE, hocr |-> [Pages |-> << >>], data |-> d] :
                  d \in Markups}
        \cup {[kind |-> "string", isNil |-> FALSE, hocr |-> [Pages |-> << >>], data |-> << >>]}

\* image buffers: a PNG image, bytes that are no image, no bytes
ImageData == {"png", "junk", ""}

\* image lists of at most MaxImages images; image k has the id k
ImageLists ==
    UNION {{[k \in 1..n |-> [id |-> k, data |-> datas[k]]] :
                datas \in [1..n -> ImageData]} : n \in 0..MaxImages}

\* OCRConfig (Debug and DumpPDF are false)
Configs ==
    [Strict : BOOLEAN, Force : BOOLEAN, LogWarnings : BOOLEAN,
     StartPage : 0..MaxStartPage, LayerName : BaseNames]

\* the configurations ApplyOCR is called with
ApplyConfigs == {c \in Configs : c.LayerName = "OCR Text"}

\* the fields AssembleWithOCR reads: StartPage and LayerName
AssembleConfigs == {c \in ApplyConfigs : ~c.Strict /\ ~c.Force /\ c.LogWarnings}

\* the fields DetectOCR reads: LayerName
DetectConfigs == {c \in Configs : ~c.Strict /\ ~c.Force /\ c.LogWarnings /\ c.StartPage = 1}

(***************************************************************************)
(* The state machine: a caller makes one call of the package               *)
(***************************************************************************)

VARIABLES
    call,   \* the operation called last and its arguments
    ret     \* what it returned and what it did

vars == <<call, ret>>

NoCall ==
    [op |-> "none", pdf |-> "", hocrInput |-> CHOOSE h \in HocrInputs : h.kind = "string",
     images |-> << >>, config |-> CHOOSE c \in DetectConfigs : c.LayerName = "OCR Text"]

Init ==
    /\ call = NoCall
    /\ ret = Fail("")

\* a caller runs DetectOCR on a PDF
CallDetectOCR ==
    /\ call.op = "none"
    /\ \E pdf \in PDFs(Declarations), config \in DetectConfigs :
           /\ call' = [NoCall EXCEPT !.op = "DetectOCR", !.pdf = pdf, !.config = config]
           /\ ret' = DetectOCR(pdf, config.LayerName)

\* a caller runs ApplyOCR
CallApplyOCR ==
    /\ call.op = "none"
    /\ \E pdf \in ApplyPDFs, hocrInput \in HocrInputs, config \in ApplyConfigs :
           /\ call' = [NoCall EXCEPT !.op = "ApplyOCR", !.pdf = pdf,
                                     !.hocrInput = hocrInput, !.config = config]
           /\ ret' = ApplyOCR(pdf, hocrInput, config)

\* a caller runs AssembleWithOCR
CallAssembleWithOCR ==
    /\ call.op = "none"
    /\ \E hocrInput \in HocrInputs, images \in ImageLists, config \in AssembleConfigs :
           /\ call' = [NoCall EXCEPT !.op = "AssembleWithOCR", !.images = images,
                                     !.hocrInput = hocrInput, !.config = config]
           /\ ret' = AssembleWithOCR(hocrInput, images, config)

Next == CallDetectOCR \/ CallApplyOCR \/ CallAssembleWithOCR

Spec == Init /\ [][Next]_vars

(***************************************************************************)
(* Properties                                                              *)
(***************************************************************************)

Range(seq) == {seq[n] : n \in Indices(seq)}

IsApply    == call.op = "ApplyOCR"
IsAssemble == call.op = "AssembleWithOCR"
IsDetect   == call.op = "DetectOCR"

\* ResolveHOCR tabulated over the values of the hocrInput parameter
ResolvedOf == [hocrInput \in HocrInputs |-> ResolveHOCR(hocrInput)]

\* the hOCR model the call resolves its hocrInput to
Resolved == ResolvedOf[call.hocrInput]

\* the hOCR input and the start page of the call are acceptable
HocrAndStartValid ==
    /\ Resolved.err = ""
    /\ Len(Resolved.hocr.Pages) > 0
    /\ call.config.StartPage >= 1

\* what detection says about the PDF of the call
ExistingLayerFound == DetectOCR(call.pdf, call.config.LayerName).HasOCR
ScanFails == CheckExistingOCRLayers(call.pdf, call.config.LayerName).err # ""

\* every warning ApplyOCR collected is a "Warning:" line of the logger
AllWarningsLogged ==
    \A n \in Indices(ret.warnings) : ("Warning: " \o ret.warnings[n]) \in Range(ret.log)

\* C1: ApplyOCR on valid inputs whose PDF has a detected OCR layer: with
\* Strict and without Force it returns an error about the existing OCR, nil
\* bytes, and page construction never starts; under the three other
\* combinations of Strict and Force page construction starts.
C1_StrictForceMatrix ==
    (IsApply /\ HocrAndStartValid /\ Len(call.pdf) > 0 /\ ExistingLayerFound) =>
        IF call.config.Strict /\ ~call.config.Force
        THEN /\ Contains(ret.err, "already has OCR")
             /\ ret.out = NilBytes
             /\ ~ret.started
             /\ ret.built = << >>
        ELSE ret.started

C1_Witness ==
    /\ IsApply /\ HocrAndStartValid /\ Len(call.pdf) > 0 /\ ExistingLayerFound
    /\ call.config.Strict /\ ~call.config.Force
    /\ ret.err # "" /\ ~ret.started

\* C2 as claimed: whenever ApplyOCR proceeds, every warning it collected
\* reaches the logger, whatever the configuration (LogWarnings included).
C2_Original == (IsApply /\ ret.started) => AllWarningsLogged

\* C2: whenever ApplyOCR proceeds with LogWarnings set, every warning it
\* collected reaches the logger, under every Strict/Force combination.
C2_WarningsLogged ==
    (IsApply /\ ret.started /\ call.config.LogWarnings) => AllWarningsLogged

C2_Witness ==
    /\ IsApply /\ ret.started /\ call.config.LogWarnings /\ call.config.Force
    /\ ExistingLayerFound
    /\ Len(ret.warnings) >= 2
    /\ AllWarningsLogged

ExtractedLayers == ret.LayerInfo.Layers
BaseName == call.config.LayerName
LayerCheck == ret.LayerInfo

\* DetectOCR was called and the layer scan worked
Scanned == IsDetect /\ ~ScanFails

\* s[from..to] is not empty and all decimal digits
AllDigits(s, from, to) ==
    from <= to /\ \A k \in from..to : IsDigit(At(s, k))

\* s[from..to] is all white space (the empty range included)
AllSpace(s, from, to) == \A k \in from..to : IsSpace(At(s, k))

\* name is "<base> (Page N)" for a decimal N, and nothing more
IsTemplated(name, base) ==
    /\ HasPrefix(name, base \o " (Page ")
    /\ At(name, Len(name)) = ")"
    /\ AllDigits(name, Len(base) + 8, Len(name) - 1)

\* name starts with base, optional white space, "(Page", optional white
\* space and a decimal digit; anything may follow
StartsTemplated(name, base) ==
    /\ HasPrefix(name, base)
    /\ \E a \in Len(base)..Len(name), b \in Len(base)..Len(name) :
           /\ AllSpace(name, Len(base) + 1, a)
           /\ HasAt(name, a + 1, "(Page")
           /\ b >= a + 5
           /\ AllSpace(name, a + 6, b)
           /\ IsDigit(At(name, b + 1))

\* the names the claims call exact or templated
NamedExactly(name) == name = BaseName \/ IsTemplated(name, BaseName)

\* the names that equal the base name or start like a templated name
NamedLeniently(name) == name = BaseName \/ StartsTemplated(name, BaseName)

\* name contains "ocr" in any case
MentionsOCR(name) == Contains(ToLower(name), "ocr")

\* the warning recorded for a name
WarningFor(name) == "Existing layer detected that might contain OCR: " \o name

\* C5 as claimed: when the layer list holds a name equal to the base name B
\* or of the form "B (Page N)", HasOCRLayer is true and OCRLayerName is the
\* first such name; for the list ["My OCR Notes"] and B = "OCR Text",
\* HasOCRLayer is false and there is exactly one warning.
C5_Original ==
    Scanned =>
        /\ \A n \in Indices(ExtractedLayers) :
               (/\ NamedExactly(ExtractedLayers[n])
                /\ \A k \in 1..(n - 1) : ~NamedExactly(ExtractedLayers[k]))
               => (LayerCheck.HasOCRLayer /\ LayerCheck.OCRLayerName = ExtractedLayers[n])
        /\ (ExtractedLayers = <<"My OCR Notes">> /\ BaseName = "OCR Text")
               => (~LayerCheck.HasOCRLayer /\ Len(LayerCheck.Warnings) = 1)

\* C5: when the layer list holds a name that equals the base name B or that
\* starts with B, optional white space, "(Page", optional white space and a
\* decimal digit, HasOCRLayer is true and OCRLayerName is the first such
\* name; for the list ["My OCR Notes"] and B = "OCR Text", HasOCRLayer is
\* false and the one warning is the one about that name.
C5_FirstMatchRecorded ==
    Scanned =>
        /\ \A n \in Indices(ExtractedLayers) :
               (/\ NamedLeniently(ExtractedLayers[n])
                /\ \A k \in 1..(n - 1) : ~NamedLeniently(ExtractedLayers[k]))
               => (LayerCheck.HasOCRLayer /\ LayerCheck.OCRLayerName = ExtractedLayers[n])
        /\ (ExtractedLayers = <<"My OCR Notes">> /\ BaseName = "OCR Text")
               => (/\ ~LayerCheck.HasOCRLayer
                   /\ LayerCheck.Warnings = <<WarningFor("My OCR Notes")>>)

C5_Witness ==
    /\ Scanned
    /\ Len(ExtractedLayers) >= 2
    /\ StartsTemplated(ExtractedLayers[1], BaseName)
    /\ ExtractedLayers[2] = BaseName
    /\ LayerCheck.HasOCRLayer
    /\ LayerCheck.OCRLayerName = ExtractedLayers[1]

\* C6 as claimed: HasOCRLayer is true only if some extracted name is exactly
\* the base name or exactly of the form "B (Page N)".
C6_Original ==
    (Scanned /\ LayerCheck.HasOCRLayer) =>
        \E n \in Indices(ExtractedLayers) : NamedExactly(ExtractedLayers[n])

\* C6: HasOCRLayer is true only if some extracted name equals the base name
\* B or starts with B, optional white space, "(Page", optional white space
\* and a decimal digit (whatever follows the digit); the recorded name is
\* such a name of the list, and DetectOCR reports HasOCR accordingly.
C6_HardFlagOnlyForMatches ==
    Scanned =>
        /\ LayerCheck.HasOCRLayer =>
               /\ \E n \in Indices(ExtractedLayers) :
                      LayerCheck.OCRLayerName = ExtractedLayers[n]
               /\ NamedLeniently(LayerCheck.OCRLayerName)
        /\ ~LayerCheck.HasOCRLayer => LayerCheck.OCRLayerName = ""
        /\ ret.HasOCR = LayerCheck.HasOCRLayer

C6_Witness ==
    /\ Scanned
    /\ LayerCheck.HasOCRLayer
    /\ \A n \in Indices(ExtractedLayers) : ~NamedExactly(ExtractedLayers[n])
    /\ StartsTemplated(LayerCheck.OCRLayerName, BaseName)

\* the positions of the list at or before which no name equals the base
\* name or starts like a templated name: the names the loop gets to and
\* does not stop at
BeforeFirstMatch ==
    {n \in Indices(ExtractedLayers) :
        \A k \in 1..n : ~NamedLeniently(ExtractedLayers[k])}

\* the positions whose names get a warning
WarnedPositions ==
    {n \in BeforeFirstMatch :
        /\ MentionsOCR(ExtractedLayers[n])
        /\ ~HasPrefix(ExtractedLayers[n], BaseName)}

\* C7 as claimed: every extracted name that contains "ocr" in any case and
\* is neither the base name nor of the form "<base> (Page N)" gets a "might
\* contain OCR" warning, at every position and whether or not another name
\* is a hard match; and a list of names none of which is the base name or
\* of that form never sets HasOCRLayer.
C7_Original ==
    Scanned =>
        /\ \A n \in Indices(ExtractedLayers) :
               (MentionsOCR(ExtractedLayers[n]) /\ ~NamedExactly(ExtractedLayers[n]))
               => WarningFor(ExtractedLayers[n]) \in Range(LayerCheck.Warnings)
        /\ (\A n \in Indices(ExtractedLayers) : ~NamedExactly(ExtractedLayers[n]))
               => ~LayerCheck.HasOCRLayer

\* C7: the warnings of CheckExistingOCRLayers are, in list order, the "might
\* contain OCR" warnings for the names that contain "ocr" in any case, do
\* not start with the base name and come before the first name that equals
\* the base name or starts like a templated name; DetectOCR returns them
\* all; and a list without a name that equals the base name or starts like
\* a templated name never sets HasOCRLayer.
C7_SoftWarnings ==
    Scanned =>
        /\ Len(LayerCheck.Warnings) = Cardinality(WarnedPositions)
        /\ \A n \in WarnedPositions :
               LayerCheck.Warnings[Cardinality({k \in WarnedPositions : k <= n})]
                   = WarningFor(ExtractedLayers[n])
        /\ \A w \in Range(LayerCheck.Warnings) : w \in Range(ret.Warnings)
        /\ (\A n \in Indices(ExtractedLayers) : ~NamedLeniently(ExtractedLayers[n]))
               => ~LayerCheck.HasOCRLayer

C7_Witness ==
    /\ Scanned
    /\ Len(ExtractedLayers) >= 2
    /\ MentionsOCR(ExtractedLayers[1]) /\ ~HasPrefix(ExtractedLayers[1], BaseName)
    /\ LayerCheck.HasOCRLayer
    /\ LayerCheck.Warnings = <<WarningFor(ExtractedLayers[1])>>

\* the names the patterns extract from the PDF of the call, in extraction
\* order, as extracted and with the names that carry the byte-order mark
\* decoded
Extracted == RawLayersOf[call.pdf]
Extraction == DecodeAll(Extracted)

\* the position at which a name is extracted first
FirstExtraction(name) ==
    Min({n \in Indices(Extraction) : Extraction[n] = name})

\* name starts with the UTF-16BE byte-order mark
CarriesBOM(name) == HasPrefix(name, BYTE_FE \o BYTE_FF)

\* C8: the list of detectPDFLayers holds no name twice, holds exactly the
\* extracted names, and orders them by their first extraction; a name with
\* a byte-order mark is in the list in its decoded spelling only, so an
\* encoded and a plain spelling of one name make one entry.
C8_DeduplicatedInOrder ==
    Scanned =>
        /\ \A i, j \in Indices(ExtractedLayers) :
               i # j => ExtractedLayers[i] # ExtractedLayers[j]
        /\ Range(ExtractedLayers) = Range(Extraction)
        /\ \A i, j \in Indices(ExtractedLayers) :
               i < j => FirstExtraction(ExtractedLayers[i])
                            < FirstExtraction(ExtractedLayers[j])
        /\ \A n \in Indices(Extracted) :
               CarriesBOM(Extracted[n]) =>
                   /\ Extracted[n] \notin Range(ExtractedLayers)
                   /\ decodeUTF16BE(Extracted[n]).val \in Range(ExtractedLayers)

C8_Witness ==
    /\ Scanned
    /\ \E m, n \in Indices(Extracted) :
           /\ m < n
           /\ CarriesBOM(Extracted[m])
           /\ Extracted[n] = "OCR Text"
    /\ ExtractedLayers = <<"OCR Text">>

\* the call is AssembleWithOCR with a model whose pages all encode
ValidModel ==
    /\ IsAssemble
    /\ Resolved.err = ""
    /\ Len(Resolved.hocr.Pages) >= 1
    /\ \A n \in Indices(Resolved.hocr.Pages) :
           drawOCRLayer(Resolved.hocr.Pages[n], BaseName, n).err = ""

\* at least as many images as the model has pages, every one decodable
EnoughImages ==
    /\ Len(call.images) >= Len(Resolved.hocr.Pages)
    /\ \A n \in Indices(call.images) : detectImageType(call.images[n].data).err = ""

\* C9 as claimed: for a valid model of N >= 1 pages, M >= N decodable
\* images and StartPage >= 1, AssembleWithOCR produces exactly N pages,
\* page k built from model page k and image k.
C9_ExactlyNPages ==
    (ValidModel /\ EnoughImages /\ call.config.StartPage >= 1) =>
        /\ ret.err = ""
        /\ ~ret.out.nil
        /\ Len(ret.out.pages) = Len(Resolved.hocr.Pages)
        /\ \A k \in Indices(ret.out.pages) :
               /\ ret.out.pages[k].model = Resolved.hocr.Pages[k].ID
               /\ ret.out.pages[k].image = call.images[k].id

\* the hOCR input resolves to a model without pages
NoPages == Resolved.err = "" /\ Len(Resolved.hocr.Pages) = 0

\* nothing is returned and nothing was built
Aborted ==
    /\ ret.err # ""
    /\ ret.out = NilBytes
    /\ ~ret.started
    /\ ret.built = << >>

\* the error comes from the page construction, not from the validation
ConstructionError ==
    \/ HasPrefix(ret.err, "error creating PDF from images")
    \/ HasPrefix(ret.err, "error modifying existing PDF")

\* C10: AssembleWithOCR returns an error and nil bytes for a model without
\* pages and for fewer images than model pages; ApplyOCR does for a model
\* without pages and for an empty input PDF; on every error return of
\* either the bytes are nil, and unless the error comes from the page
\* construction itself no page was constructed.
C10_NoPartialOutput ==
    /\ (IsAssemble /\ Resolved.err = ""
            /\ (NoPages \/ Len(call.images) < Len(Resolved.hocr.Pages))) => Aborted
    /\ (IsApply /\ Resolved.err = "" /\ (NoPages \/ Len(call.pdf) = 0)) => Aborted
    /\ ((IsAssemble \/ IsApply) /\ ret.err # "") =>
           /\ ret.out = NilBytes
           /\ ~ConstructionError => Aborted
    /\ ((IsAssemble \/ IsApply) /\ ret.err = "") => (~ret.out.nil /\ ret.started)

C10_Witness ==
    /\ IsAssemble
    /\ Resolved.err = ""
    /\ Len(Resolved.hocr.Pages) = 2
    /\ Len(call.images) = 1
    /\ detectImageType(call.images[1].data).err = ""
    /\ call.config.StartPage = 1
    /\ Aborted

\* the images of the call that are empty or no image
BadImages ==
    {n \in Indices(call.images) :
        call.images[n].data = "" \/ detectImageType(call.images[n].data).err # ""}

\* the error is the one the image loop returns for image n
NamesImage(n) ==
    \/ ret.err = "image " \o Itoa(n) \o " is empty"
    \/ ret.err = "image " \o Itoa(n) \o " has invalid format"

\* the hOCR input, the start page and the number of images pass the checks
\* that come before the image loop
PassesEarlierChecks ==
    /\ Resolved.err = ""
    /\ Len(Resolved.hocr.Pages) >= 1
    /\ call.config.StartPage >= 1
    /\ Len(call.images) >= Len(Resolved.hocr.Pages)

\* C11 as claimed: whenever some image of the list is empty or no image,
\* AssembleWithOCR returns an error that names such an image by its 1-based
\* index, and no output.
C11_Original ==
    (IsAssemble /\ BadImages # {}) =>
        /\ Aborted
        /\ \E n \in BadImages : NamesImage(n)

\* C11: whenever some image of the list is empty or no image (images beyond
\* the model's page count included), AssembleWithOCR returns an error and no
\* output and creates no page; when the inputs pass the checks that come
\* before the image loop, the error names the first such image by its
\* 1-based index, otherwise it is the error of the earlier check.
C11_ImagesValidatedFirst ==
    (IsAssemble /\ BadImages # {}) =>
        /\ Aborted
        /\ PassesEarlierChecks =>
               /\ NamesImage(Min(BadImages))
               /\ call.images[Min(BadImages)].data = "" <=>
                      ret.err = "image " \o Itoa(Min(BadImages)) \o " is empty"
        /\ ~PassesEarlierChecks => \A n \in BadImages : ~NamesImage(n)

C11_Witness ==
    /\ IsAssemble
    /\ PassesEarlierChecks
    /\ Len(Resolved.hocr.Pages) = 2
    /\ BadImages = {3}
    /\ ret.err = "image 3 has invalid format"
    /\ Aborted

(***************************************************************************)
(* drawOCRLayer called on one page                                         *)
(***************************************************************************)

\* the most words at one attachment point of a page
MaxSlotWords == 1

\* the attachment points drawOCRLayer visits: words directly under an area,
\* in a line of an area, directly under a paragraph of an area, in a line of
\* such a paragraph, directly under a paragraph of the page, in a line of
\* such a paragraph, and in a line of the page
Slots == {"area", "areaLine", "areaPar", "areaParLine", "par", "parLine", "line"}

\* n words of one attachment point, each with an ID of its own
SlotWords(slot, n) ==
    [k \in 1..n |-> [ID   |-> "word_" \o slot \o "_" \o Itoa(k),
                     Text |-> "Hello",
                     BBox |-> BBoxOf(100, 20)]]

\* a page with shape[slot] words at every attachment point
ShapedPage(shape) ==
    [ID         |-> 1,
     BBox       |-> BBoxOf(600, 800),
     Areas      |-> << [Words      |-> SlotWords("area", shape["area"]),
                        Lines      |-> << [Words |-> SlotWords("areaLine", shape["areaLine"])] >>,
                        Paragraphs |-> << [Words |-> SlotWords("areaPar", shape["areaPar"]),
                                           Lines |-> << [Words |-> SlotWords("areaParLine",
                                                                     shape["areaParLine"])] >>] >>] >>,
     Paragraphs |-> << [Words |-> SlotWords("par", shape["par"]),
                        Lines |-> << [Words |-> SlotWords("parLine", shape["parLine"])] >>] >>,
     Lines      |-> << [Words |-> SlotWords("line", shape["line"])] >>]

ShapedPages == {ShapedPage(shape) : shape \in [Slots -> 0..MaxSlotWords]}

\* the most words of a line whose words are counted
MaxLineWords == 21

\* a page of one line of n words, the first garbled of which do not encode
CountedPage(n, garbled) ==
    [ID         |-> 1,
     BBox       |-> BBoxOf(600, 800),
     Areas      |-> << >>,
     Paragraphs |-> << >>,
     Lines      |-> << [Words |-> [k \in 1..n |->
                                      [ID   |-> "word_line_" \o Itoa(k),
                                       Text |-> IF k <= garbled THEN "w$rld" ELSE "Hello",
                                       BBox |-> BBoxOf(100, 20)]]] >>]

CountedPages ==
    UNION {{CountedPage(n, garbled) : garbled \in 0..n} : n \in 0..MaxLineWords}

\* words to measure: no text, short and long text, boxes of no, of little
\* and of much width
MeasuredWords ==
    {[Text |-> text, BBox |-> BBoxOf(width, 20)] :
        text \in {"", "Hi", "Hello"}, width \in {0, 30, 100}}

\* pages of one line of two words to measure
MeasuredPages ==
    {[ID |-> 1, BBox |-> BBoxOf(600, 800), Areas |-> << >>, Paragraphs |-> << >>,
      Lines |-> << [Words |-> << [ID |-> "word_1", Text |-> first.Text, BBox |-> first.BBox],
                                 [ID |-> "word_2", Text |-> second.Text,
                                  BBox |-> second.BBox] >>] >>] :
        first \in MeasuredWords, second \in MeasuredWords}

\* values of FontConfig.Size, in points
FontSizes == {8, 12}

\* pdf.GetStringWidth at the font size current: the widths of the
\* characters are parts of the font size, and every character of the
\* inputs is taken to be half an em wide
GetStringWidth(text, current) == Fraction(current.num * Len(text), current.den * 2)

\* drawWord that leaves the font size it has set
drawWord_NoReset(word, size, current) ==
    LET wordWidth == word.BBox.X2 - word.BBox.X1
        strWidth  == GetStringWidth(word.Text, current)
        used      == IF strWidth.num > 0
                     THEN Fraction(size * wordWidth * strWidth.den, strWidth.num)
                     ELSE current
    IN  [wordWidth  |-> wordWidth,
         measuredAt |-> current,
         strWidth   |-> strWidth,
         used       |-> used,
         typeset    |-> GetStringWidth(word.Text, used),
         after      |-> used]

\* drawWord with the transform of both callers, which maps a coordinate to
\* itself, the font size size of fontConfig and the font size current of
\* the pdf: the width of the box, the font size the text is measured at,
\* its width at that size, the font size pdf.Text writes it with, its
\* width at that size, and the font size of the pdf after the call
drawWord(word, size, current) ==
    LET wordWidth == word.BBox.X2 - word.BBox.X1
        strWidth  == GetStringWidth(word.Text, current)
        used      == IF strWidth.num > 0
                     THEN Fraction(size * wordWidth * strWidth.den, strWidth.num)
                     ELSE current
    IN  [wordWidth  |-> wordWidth,
         measuredAt |-> current,
         strWidth   |-> strWidth,
         used       |-> used,
         typeset    |-> GetStringWidth(word.Text, used),
         after      |-> Fraction(size, 1)]

RECURSIVE drawWords(_, _, _)
\* the drawWord calls of drawOCRLayer, one after the other on the same pdf
drawWords(words, size, current) ==
    IF words = << >> THEN << >>
    ELSE <<drawWord(Head(words), size, current)>>
             \o drawWords(Tail(words), size, drawWord(Head(words), size, current).after)

\* the call is drawOCRLayer on one page
IsDraw == call.op = "drawOCRLayer"

\* a caller runs drawOCRLayer on one page after pdf.SetFont with the size
\* of fontConfig; drawn is the sequence of its drawWord calls, sized what
\* each of them did with the font size
CallDrawOCRLayer ==
    /\ call.op = "none"
    /\ \E page \in ShapedPages \cup CountedPages \cup MeasuredPages, size \in FontSizes :
           /\ call' = [op |-> "drawOCRLayer", page |-> page, size |-> size]
           /\ ret' = [result |-> drawOCRLayer(page, "OCR Text", 1),
                      drawn  |-> DrawnWords(page),
                      sized  |-> drawWords(DrawnWords(page), size, Fraction(size, 1))]

NextDraw == CallDrawOCRLayer

SpecDraw == Init /\ [][NextDraw]_vars

\* the IDs of a sequence of words
WordIDs(words) == {words[w].ID : w \in Indices(words)}

\* the IDs of the words in a sequence of lines
LineWordIDs(lines) == UNION {WordIDs(lines[l].Words) : l \in Indices(lines)}

\* the IDs of the words in a sequence of paragraphs
ParagraphWordIDs(pars) ==
    UNION {WordIDs(pars[p].Words) \cup LineWordIDs(pars[p].Lines) : p \in Indices(pars)}

\* the IDs of the words in a sequence of areas
AreaWordIDs(areas) ==
    UNION {WordIDs(areas[a].Words) \cup LineWordIDs(areas[a].Lines)
               \cup ParagraphWordIDs(areas[a].Paragraphs) : a \in Indices(areas)}

\* the IDs of the words reachable in a page
PageWordIDs(page) ==
    AreaWordIDs(page.Areas) \cup ParagraphWordIDs(page.Paragraphs) \cup LineWordIDs(page.Lines)

\* how often drawWord was called with the word of one ID
TimesDrawn(id) == Cardinality({n \in Indices(ret.drawn) : ret.drawn[n].ID = id})

\* C12: drawOCRLayer calls drawWord exactly once for every word reachable in
\* the page, at whichever of the seven attachment points it sits, and the
\* word count it keeps is the number of words of the page
C12_EveryWordDrawnOnce ==
    IsDraw =>
        /\ ret.result.wordCount = Cardinality(PageWordIDs(call.page))
        /\ Len(ret.drawn) = ret.result.wordCount
        /\ \A id \in PageWordIDs(call.page) : TimesDrawn(id) = 1

\* a page with a word at each of the seven attachment points, all drawn
C12_Witness ==
    /\ IsDraw
    /\ \A slot \in Slots : "word_" \o slot \o "_1" \in PageWordIDs(call.page)
    /\ ret.result.wordCount = Cardinality(Slots)
    /\ \A slot \in Slots : TimesDrawn("word_" \o slot \o "_1") = 1

(***************************************************************************)
(* The hocr package called on documents and on the models parsed from them *)
(***************************************************************************)

\* the places of a word element in a page element: the seven attachment
\* points of the model and directly under the page element
MarkupSlots == Slots \cup {"page"}

\* how the elements of a document are written: with IDs and plain text,
\* without id attributes, with markup characters as references in the text
Styles == {"plain", "noIDs", "references"}

\* the n word elements of one place
MarkupWords(slot, n, style) ==
    [k \in 1..n |->
        Element("span", "ocrx_word",
                IF style = "noIDs" THEN "" ELSE "word_" \o slot \o "_" \o Itoa(k),
                "bbox 10 10 200 40",
                <<TextNode(IF style = "references" THEN "&lt;i&gt;" ELSE "Hello")>>)]

\* a line element with the word elements of one place
MarkupLine(slot, n, style) ==
    Element("span", "ocr_line", IF style = "noIDs" THEN "" ELSE "line_" \o slot,
            "bbox 10 10 590 40", MarkupWords(slot, n, style))

\* the elements below a page element with shape[slot] word elements at
\* every place
ShapedMarkup(shape, style) ==
    << Element("div", "ocr_carea", IF style = "noIDs" THEN "" ELSE "block_1",
               "bbox 10 10 590 400",
               << Element("p", "ocr_par", IF style = "noIDs" THEN "" ELSE "par_1",
                          "bbox 10 10 590 200",
                          <<MarkupLine("areaParLine", shape["areaParLine"], style)>>
                              \o MarkupWords("areaPar", shape["areaPar"], style)),
                  MarkupLine("areaLine", shape["areaLine"], style) >>
                   \o MarkupWords("area", shape["area"], style)),
       Element("p", "ocr_par", IF style = "noIDs" THEN "" ELSE "par_2",
               "bbox 10 400 590 600",
               <<MarkupLine("parLine", shape["parLine"], style)>>
                   \o MarkupWords("par", shape["par"], style)),
       MarkupLine("line", shape["line"], style) >>
        \o MarkupWords("page", shape["page"], style)

\* a document of one page element, without a charset declaration
ShapedDocument(shape, style) ==
    [declared |-> FALSE, after |-> "",
     nodes    |-> << Element("div", "ocr_page", IF style = "noIDs" THEN "" ELSE "page_1",
                             "bbox 0 0 600 800", ShapedMarkup(shape, style)) >>]

\* how many word elements stand at every place
Shapes == [MarkupSlots -> 0..MaxSlotWords]

\* what may stand around the elements of a page: a page element, two page
\* elements below html and body, a span with the class of a page, an area
\* without a page, a page element inside a page element, nothing at all
Wrapped(kids) ==
    { << Element("div", "ocr_page", "page_1", "bbox 0 0 600 800", kids) >>,
      << Element("html", "", "", "",
                 << Element("body", "", "", "",
                            << Element("div", "ocr_page", "page_1", "bbox 0 0 600 800", kids),
                               Element("div", "ocr_page extra", "page_2", "", << >>) >>) >>) >>,
      << Element("span", "ocr_page", "page_1", "bbox 0 0 600 800", kids) >>,
      << Element("div", "ocr_carea", "block_1", "bbox 0 0 600 800", kids) >>,
      << Element("div", "ocr_page", "page_1", "bbox 0 0 600 800",
                 << Element("div", "ocr_page", "page_2", "bbox 0 0 600 800", kids) >>) >>,
      << >> }

\* the bytes after "charset=" in the documents that declare one: the rest of
\* a head, of a document that ends after the head, of one that ends inside
\* the declaration, and quotes only
CharsetTails ==
    {"utf-8' /></head><body>", "iso-8859-1' /></head><body>", "utf-8' /></head>",
     "utf-8' />", "''''''''''''''''''''''"}

\* documents with and without a page element and a charset declaration
WrappedDocuments ==
    {[declared |-> after # "", after |-> after, nodes |-> nodes] :
        after \in CharsetTails \cup {""},
        nodes \in Wrapped(ShapedMarkup([slot \in MarkupSlots |-> 1], "plain"))}

\* the call is ParseHOCR
IsParse == call.op = "ParseHOCR"

\* ParseHOCR called on the bytes of a document
ParseCall(data) ==
    /\ call' = [op |-> "ParseHOCR", data |-> data]
    /\ ret' = ParseHOCR(data)

\* keys of a title attribute that no element reads into a field of its own
ExtraKeys == {"x_size", "textangle"}

\* a title attribute with a box and the keys of the set keys, x_size with
\* two values and textangle with one
ExtraTitle(keys) ==
    "bbox 0 0 600 800"
        \o (IF "x_size" \in keys THEN "; x_size 12  3" ELSE "")
        \o (IF "textangle" \in keys THEN ";textangle 90 " ELSE "")

\* a document of one page, area, paragraph, line and word, each inside the
\* one before and each with the same title attribute
TitledDocument(keys) ==
    [declared |-> FALSE, after |-> "",
     nodes |-> << Element("div", "ocr_page", "page_1", ExtraTitle(keys),
               << Element("div", "ocr_carea", "block_1", ExtraTitle(keys),
               << Element("p", "ocr_par", "par_1", ExtraTitle(keys),
               << Element("span", "ocr_line", "line_1", ExtraTitle(keys),
               << Element("span", "ocrx_word", "word_1", ExtraTitle(keys),
                          <<TextNode("Hello")>>) >>) >>) >>) >>) >>]

\* a caller parses the bytes of a document
CallParseHOCR ==
    /\ call.op = "none"
    /\ \/ \E shape \in Shapes, style \in Styles : ParseCall(ShapedDocument(shape, style))
       \/ \E data \in WrappedDocuments : ParseCall(data)
       \/ \E keys \in SUBSET ExtraKeys : ParseCall(TitledDocument(keys))

RECURSIVE CountWordElements(_)
\* the elements of the class ocrx_word among nodes and below them
CountWordElements(nodes) ==
    IF nodes = << >> THEN 0
    ELSE (IF Contains(Head(nodes).class, "ocrx_word") THEN 1 ELSE 0)
         + CountWordElements(Head(nodes).kids) + CountWordElements(Tail(nodes))

RECURSIVE WordElementsInPages(_)
\* the word elements inside the page elements ParseHOCR finds
WordElementsInPages(nodes) ==
    IF nodes = << >> THEN 0
    ELSE (IF Head(nodes).tag = "div" /\ Contains(Head(nodes).class, "ocr_page")
          THEN CountWordElements(Head(nodes).kids)
          ELSE WordElementsInPages(Head(nodes).kids))
         + WordElementsInPages(Tail(nodes))

RECURSIVE WordsOfPages(_)
\* the words of the pages of a model
WordsOfPages(pages) ==
    IF pages = << >> THEN 0
    ELSE Len(DrawnWords(Head(pages))) + WordsOfPages(Tail(pages))

\* C13: ParseHOCR keeps every word element found under a page element, at
\* each of the four places the format allows, the page element itself
\* included: the model has as many words as the page elements hold word
\* elements
C13_EveryWordElementKept ==
    (IsParse /\ ~ret.panic) =>
        WordsOfPages(ret.hocr.Pages) = WordElementsInPages(htmlParse(call.data.nodes))

\* the loop over the words of a line, a paragraph or an area
WordsText(words) ==
    LET RECURSIVE written(_)
        written(k) == IF k > Len(words) THEN "" ELSE words[k].Text \o " " \o written(k + 1)
    IN  written(1)

\* extractLineText
extractLineText(line) == WordsText(line.Words) \o "\n"

\* getLineKey
getLineKey(line) == line.ID

RECURSIVE extractLines(_, _)
\* the loop over lines of ExtractHOCRText, extractAreaText and
\* extractParagraphText: a line whose key is in processed is passed over;
\* [text, processed]
extractLines(lines, processed) ==
    IF lines = << >> THEN [text |-> "", processed |-> processed]
    ELSE IF getLineKey(Head(lines)) \in processed
    THEN extractLines(Tail(lines), processed)
    ELSE LET rest == extractLines(Tail(lines), processed \cup {getLineKey(Head(lines))})
         IN  [text |-> extractLineText(Head(lines)) \o rest.text, processed |-> rest.processed]

\* the words directly in a paragraph or an area, with the line break that
\* follows them
DirectWordsText(words) == IF Len(words) > 0 THEN WordsText(words) \o "\n" ELSE ""

\* extractParagraphText: [text, processed]
extractParagraphText(para, processed) ==
    LET lines == extractLines(para.Lines, processed)
    IN  [text |-> lines.text \o DirectWordsText(para.Words), processed |-> lines.processed]

RECURSIVE extractParagraphs(_, _)
\* extractParagraphText for the paragraphs of a page or an area
extractParagraphs(paras, processed) ==
    IF paras = << >> THEN [text |-> "", processed |-> processed]
    ELSE LET first == extractParagraphText(Head(paras), processed)
             rest  == extractParagraphs(Tail(paras), first.processed)
         IN  [text |-> first.text \o rest.text, processed |-> rest.processed]

\* extractAreaText: [text, processed]
extractAreaText(area, processed) ==
    LET paras == extractParagraphs(area.Paragraphs, processed)
        lines == extractLines(area.Lines, paras.processed)
    IN  [text      |-> paras.text \o lines.text \o DirectWordsText(area.Words),
         processed |-> lines.processed]

RECURSIVE extractAreas(_, _)
\* extractAreaText for the areas of a page
extractAreas(areas, processed) ==
    IF areas = << >> THEN [text |-> "", processed |-> processed]
    ELSE LET first == extractAreaText(Head(areas), processed)
             rest  == extractAreas(Tail(areas), first.processed)
         IN  [text |-> first.text \o rest.text, processed |-> rest.processed]

\* the body of the loop over pages of ExtractHOCRText, processedContent
\* starting empty
extractPageText(page) ==
    LET areas == extractAreas(page.Areas, {})
        paras == extractParagraphs(page.Paragraphs, areas.processed)
        lines == extractLines(page.Lines, paras.processed)
    IN  areas.text \o paras.text \o lines.text \o "\n\n"

RECURSIVE ExtractHOCRText(_)
\* ExtractHOCRText, given the pages of hocrDoc
ExtractHOCRText(pages) ==
    IF pages = << >> THEN ""
    ELSE extractPageText(Head(pages)) \o ExtractHOCRText(Tail(pages))

\* the call is ExtractHOCRText
IsExtract == call.op = "ExtractHOCRText"

\* ExtractHOCRText called on a model
ExtractCall(hocrDoc) ==
    /\ call' = [op |-> "ExtractHOCRText", hocrDoc |-> hocrDoc]
    /\ ret' = [text |-> ExtractHOCRText(hocrDoc.Pages)]

\* a caller extracts the text of a model that ParseHOCR has returned
CallExtractHOCRText ==
    /\ call.op = "none"
    /\ \/ \E shape \in Shapes, style \in Styles :
              ExtractCall(ParseHOCR(ShapedDocument(shape, style)).hocr)
       \/ \E data \in WrappedDocuments :
              ~ParseHOCR(data).panic /\ ExtractCall(ParseHOCR(data).hocr)

\* how often sub stands in s
Occurrences(s, sub) == Cardinality({i \in 1..Len(s) : HasAt(s, i, sub)})

\* the texts of the words of the first page of the model of the call
FirstPageTexts == {DrawnWords(call.hocrDoc.Pages[1])[n].Text :
                      n \in Indices(DrawnWords(call.hocrDoc.Pages[1]))}

\* C14: ExtractHOCRText emits the text of every word of the model exactly
\* once, also for models whose lines have empty or equal IDs, and ends each
\* page with a blank line
C14_EveryWordTextOnce ==
    (IsExtract /\ Len(call.hocrDoc.Pages) >= 1) =>
        /\ \A t \in FirstPageTexts :
               Occurrences(ret.text, t \o " ")
                   = Cardinality({n \in Indices(DrawnWords(call.hocrDoc.Pages[1])) :
                                      DrawnWords(call.hocrDoc.Pages[1])[n].Text = t})
        /\ HasAt(ret.text, Len(ret.text) - 1, "\n\n")


(***************************************************************************)
(* GenerateHOCRDocument.  The template is executed by text/template, which *)
(* writes every value as it is.  The output is [declared, after, lang,     *)
(* title, metas, nodes]: the charset declaration of the head and the bytes *)
(* after it, the attribute and the element of the head, the meta elements  *)
(* as [name, content], and the page elements of the body; white space      *)
(* between the elements is left out.  The model keeps no language and no   *)
(* confidence of an element, so no lang attribute and no x_wconf appear.   *)
(***************************************************************************)

\* title='bbox {{ X1 }} {{ Y1 }} {{ X2 }} {{ Y2 }}' for whole coordinates
BBoxTitle(box) ==
    "bbox " \o Itoa(box.X1) \o " " \o Itoa(box.Y1) \o " " \o Itoa(box.X2) \o " " \o Itoa(box.Y2)

\* the span of a word
WordMarkup(word) ==
    Element("span", "ocrx_word", word.ID, BBoxTitle(word.BBox), <<TextNode(word.Text)>>)

\* the spans of the words of a line, a paragraph or an area
WordsMarkup(words) == [k \in Indices(words) |-> WordMarkup(words[k])]

\* the spans of lines, each with the spans of its words
LinesMarkup(lines) ==
    [k \in Indices(lines) |->
        Element("span", "ocr_line", lines[k].ID, BBoxTitle(lines[k].BBox),
                WordsMarkup(lines[k].Words))]

\* the p elements of paragraphs: lines, then the words directly in them
ParagraphsMarkup(paras) ==
    [k \in Indices(paras) |->
        Element("p", "ocr_par", paras[k].ID, BBoxTitle(paras[k].BBox),
                LinesMarkup(paras[k].Lines) \o WordsMarkup(paras[k].Words))]

\* the div elements of areas: paragraphs, lines, then the words directly
\* in them
AreasMarkup(areas) ==
    [k \in Indices(areas) |->
        Element("div", "ocr_carea", areas[k].ID, BBoxTitle(areas[k].BBox),
                ParagraphsMarkup(areas[k].Paragraphs) \o LinesMarkup(areas[k].Lines)
                    \o WordsMarkup(areas[k].Words))]

\* the div elements of pages: areas, paragraphs, lines
PagesMarkup(pages) ==
    [k \in Indices(pages) |->
        Element("div", "ocr_page", pages[k].ID, BBoxTitle(pages[k].BBox),
                AreasMarkup(pages[k].Areas) \o ParagraphsMarkup(pages[k].Paragraphs)
                    \o LinesMarkup(pages[k].Lines))]

\* the keys with a default meta element, in the order range visits the keys
\* of a map
DefaultKeys == <<"ocr-langs", "ocr-number-of-pages", "ocr-system">>

\* index .Metadata key: the zero value for a key that is not in the map
IndexMetadata(doc, key) == IF key \in DOMAIN doc.Metadata THEN doc.Metadata[key] ELSE ""

\* what a default meta element carries
DefaultContent(doc, key) ==
    CASE key = "ocr-system" -> "hOCR"
      [] key = "ocr-number-of-pages" -> Itoa(Len(doc.Pages))
      [] key = "ocr-langs" -> IF doc.Language # "" THEN doc.Language ELSE "unknown"

\* the meta elements of the head after the one of the content type: those
\* of the map, the defaults under {{ if not (index .Metadata key) }} in the
\* order of the template, and the description
MetaElements(doc) ==
    LET ranged   == SelectSeq(DefaultKeys, LAMBDA key : key \in DOMAIN doc.Metadata)
        defaults == SelectSeq(<<"ocr-system", "ocr-number-of-pages", "ocr-langs">>,
                              LAMBDA key : IndexMetadata(doc, key) = "")
    IN  [k \in Indices(ranged) |-> [name |-> ranged[k], content |-> doc.Metadata[ranged[k]]]]
        \o [k \in Indices(defaults) |->
               [name |-> defaults[k], content |-> DefaultContent(doc, defaults[k])]]
        \o (IF doc.Description # ""
            THEN <<[name |-> "description", content |-> doc.Description]>> ELSE << >>)

\* GenerateHOCRDocument: [out, err]; the template parses and executes for
\* every model
GenerateHOCRDocument(doc) ==
    [out |-> [declared |-> TRUE,
              after    |-> "utf-8\" />\n    <meta name=\"",
              lang     |-> IF doc.Language # "" THEN doc.Language ELSE "unknown",
              title    |-> IF doc.Title # "" THEN doc.Title ELSE "Document OCR",
              metas    |-> MetaElements(doc),
              nodes    |-> PagesMarkup(doc.Pages)],
     err |-> ""]

\* the metadata maps of the models: any of the keys, with and without a value
MetadataMaps == UNION {[keys -> {"", "Tess & Co"}] : keys \in SUBSET Range(DefaultKeys)}

\* the fields of a model beside its pages
Heads ==
    [Title : {"", "Scan <1>"}, Description : {"", "the \"first\" batch"},
     Language : {"", "eng"}, Metadata : MetadataMaps]

\* a model with the pages ParseHOCR returns
DocOf(head, pages) ==
    [Title |-> head.Title, Description |-> head.Description, Language |-> head.Language,
     Metadata |-> head.Metadata, Pages |-> pages]

\* the call is GenerateHOCRDocument
IsGenerate == call.op = "GenerateHOCRDocument"

\* GenerateHOCRDocument called on a model
GenerateCall(doc) ==
    /\ call' = [op |-> "GenerateHOCRDocument", doc |-> doc]
    /\ ret' = GenerateHOCRDocument(doc)

\* a caller generates the document of a model whose pages ParseHOCR has
\* returned
CallGenerateHOCRDocument ==
    /\ call.op = "none"
    /\ \/ \E shape \in Shapes, style \in Styles :
              GenerateCall(DocOf([Title |-> "", Description |-> "", Language |-> "",
                                  Metadata |-> [key \in {} |-> ""]],
                                 ParseHOCR(ShapedDocument(shape, style)).hocr.Pages))
       \/ \E head \in Heads :
              GenerateCall(DocOf(head, ParseHOCR(ShapedDocument([slot \in MarkupSlots |-> 1],
                                                                "plain")).hocr.Pages))

\* an element without its ID: the box of a word and its text
WordShape(word) == [BBox |-> word.BBox, Text |-> word.Text]

\* the box of a line and its words
LineShape(line) ==
    [BBox |-> line.BBox, Words |-> [k \in Indices(line.Words) |-> WordShape(line.Words[k])]]

\* the box of a paragraph, its lines and its words
ParagraphShape(para) ==
    [BBox  |-> para.BBox,
     Lines |-> [k \in Indices(para.Lines) |-> LineShape(para.Lines[k])],
     Words |-> [k \in Indices(para.Words) |-> WordShape(para.Words[k])]]

\* the box of an area, its paragraphs, its lines and its words
AreaShape(area) ==
    [BBox       |-> area.BBox,
     Paragraphs |-> [k \in Indices(area.Paragraphs) |-> ParagraphShape(area.Paragraphs[k])],
     Lines      |-> [k \in Indices(area.Lines) |-> LineShape(area.Lines[k])],
     Words      |-> [k \in Indices(area.Words) |-> WordShape(area.Words[k])]]

\* the pages of a model: the box of each, its areas, paragraphs and lines
PagesShape(pages) ==
    [n \in Indices(pages) |->
        [BBox       |-> pages[n].BBox,
         Areas      |-> [k \in Indices(pages[n].Areas) |-> AreaShape(pages[n].Areas[k])],
         Paragraphs |-> [k \in Indices(pages[n].Paragraphs) |->
                            ParagraphShape(pages[n].Paragraphs[k])],
         Lines      |-> [k \in Indices(pages[n].Lines) |-> LineShape(pages[n].Lines[k])]]]

\* C15: round trip: parsing the document generated from a model that
\* ParseHOCR has returned gives a model with as many pages, the same
\* areas, paragraphs, lines and words in the same order under every
\* container, the same word texts and the same boxes
C15_RoundTrip ==
    IsGenerate =>
        /\ ret.err = ""
        /\ ~ParseHOCR(ret.out).panic
        /\ PagesShape(ParseHOCR(ret.out).hocr.Pages) = PagesShape(call.doc.Pages)


RECURSIVE NodesOf(_)
\* the nodes of a sequence and those below them
NodesOf(nodes) ==
    IF nodes = << >> THEN {}
    ELSE {Head(nodes)} \cup NodesOf(Head(nodes).kids) \cup NodesOf(Tail(nodes))

\* the values of the model as they stand in the output: the language and
\* the title of the document, the names and contents of the meta elements,
\* the IDs of the elements and the texts of the words
WrittenValues(out) ==
    {out.lang, out.title}
        \cup {out.metas[k].name : k \in Indices(out.metas)}
        \cup {out.metas[k].content : k \in Indices(out.metas)}
        \cup {node.id : node \in NodesOf(out.nodes)}
        \cup {node.text : node \in NodesOf(out.nodes)}

\* no character of raw ends an attribute or starts markup: the quotes and
\* the angle brackets do not occur, and & only starts a reference
IsEscaped(raw) ==
    \A i \in 1..Len(raw) :
        /\ At(raw, i) \notin {"<", ">", "'", "\""}
        /\ At(raw, i) = "&" =>
               \E ref \in {"&lt;", "&gt;", "&amp;", "&#39;", "&#34;"} : HasAt(raw, i, ref)

\* C16: GenerateHOCRDocument escapes all text and attribute content: the
\* text of a word, an ID, the language, the title, the description and the
\* keys and values of the metadata are written with <, >, &, ' and "
\* escaped
C16_ContentEscaped ==
    IsGenerate => \A raw \in WrittenValues(ret.out) : IsEscaped(raw)

\* the meta elements of one name in the output
MetasNamed(name) == SelectSeq(ret.out.metas, LAMBDA meta : meta.name = name)

\* C18: the default meta element of ocr-system, ocr-number-of-pages and
\* ocr-langs is written only when the key is not in the metadata map: for
\* a key of the map, whatever its value, the output has the one meta
\* element of the map and no second one of that name
C18_DefaultsOnlyWhenAbsent ==
    IsGenerate =>
        \A key \in Range(DefaultKeys) :
            /\ Len(MetasNamed(key)) = 1
            /\ MetasNamed(key)[1].content
                   = IF key \in DOMAIN call.doc.Metadata THEN call.doc.Metadata[key]
                     ELSE DefaultContent(call.doc, key)


\* the bytes of the call hold a div element whose class contains ocr_page
HasPageElement ==
    \E node \in NodesOf(htmlParse(call.data.nodes)) :
        node.tag = "div" /\ Contains(node.class, "ocr_page")

\* C17: ParseHOCR on input without a page element returns an error and a
\* model of zero pages, and whenever it returns no error the model has at
\* least one page
C17_NoPageIsAnError ==
    IsParse =>
        /\ ~HasPageElement =>
               /\ ~ret.panic
               /\ ret.err # ""
               /\ Len(ret.hocr.Pages) = 0
        /\ (~ret.panic /\ ret.err = "") => Len(ret.hocr.Pages) >= 1


(***************************************************************************)
(* The font size and the threshold of drawOCRLayer                         *)
(***************************************************************************)

\* two fractions are the same number
SameNumber(p, q) == p.num * q.den = q.num * p.den

\* drawWord call n measured its text at the base font size
MeasuredAtBase(n) == SameNumber(ret.sized[n].measuredAt, Fraction(call.size, 1))

\* the text of drawWord call n is as wide as its box when it is written
WidthMatched(n) == SameNumber(ret.sized[n].typeset, Fraction(ret.sized[n].wordWidth, 1))

\* the font size of drawWord call n is
\* baseFontSize * (W / nativeWidth(text at baseFontSize))
ScaledToBox(n) ==
    ret.sized[n].used.num * GetStringWidth(call.page.Lines[1].Words[n].Text,
                                           Fraction(call.size, 1)).num
        = call.size * ret.sized[n].wordWidth * ret.sized[n].used.den
              * GetStringWidth(call.page.Lines[1].Words[n].Text, Fraction(call.size, 1)).den

\* the call draws a page of words to measure
IsMeasured == IsDraw /\ call.page \in MeasuredPages

\* C19 as stated: for every word drawn, those of no native width included,
\* the native width is measured at the base font size and the text is as
\* wide as the mapped box when it is written
C19_Original ==
    IsMeasured =>
        \A n \in Indices(ret.sized) : MeasuredAtBase(n) /\ WidthMatched(n)

\* C19: for every word drawn the native width is measured at the base font
\* size; a word of positive native width is written at the font size
\* baseFontSize * (W / nativeWidth) and is then as wide as its box W; a
\* word of no native width is written at the base font size and has no
\* width, whatever W is
C19_WidthMatchedWhenMeasurable ==
    IsMeasured =>
        \A n \in Indices(ret.sized) :
            /\ MeasuredAtBase(n)
            /\ ret.sized[n].strWidth.num > 0 => ScaledToBox(n) /\ WidthMatched(n)
            /\ ret.sized[n].strWidth.num = 0 =>
                   /\ SameNumber(ret.sized[n].used, Fraction(call.size, 1))
                   /\ ret.sized[n].typeset.num = 0

\* the second word of a line, drawn after a word that was scaled, is scaled
\* to its own box, and a word without text in a box of some width is drawn
C19_Witness ==
    /\ IsMeasured
    /\ call.page.Lines[1].Words[1].Text = "Hello"
    /\ ret.sized[1].wordWidth = 30
    /\ ~SameNumber(ret.sized[1].used, Fraction(call.size, 1))
    /\ call.page.Lines[1].Words[2].Text = "Hi"
    /\ ret.sized[2].wordWidth = 100
    /\ WidthMatched(2)

\* C20: drawOCRLayer returns an error exactly when the words that did not
\* encode are more than a tenth of the words drawn, 10 * encodingErrors >
\* wordCount, and none for a page without words: the integer comparison of
\* the code agrees with the ratio
C20_ThresholdIsTheRatio ==
    IsDraw =>
        /\ ret.result.err # ""
               <=> /\ ret.result.wordCount > 0
                   /\ 10 * ret.result.encodingErrors > ret.result.wordCount
        /\ ret.result.wordCount = 0 => ret.result.err = ""

\* 2 of 19 words did not encode, which is more than a tenth while 19 / 10
\* is 1 in integers: the error is returned
C20_Witness ==
    /\ IsDraw
    /\ ret.result.wordCount = 19
    /\ ret.result.encodingErrors = 2
    /\ ret.result.err = "character encoding issues in 2 of 19 words"

NextHOCR == CallParseHOCR \/ CallExtractHOCRText \/ CallGenerateHOCRDocument

SpecHOCR == Init /\ [][NextHOCR]_vars

(***************************************************************************)
(* The pdfocr command                                                      *)
(***************************************************************************)

\* the exit codes of the command
exitSuccess          == 0
exitError            == 1
exitSuccessWithWarns == 2
exitStrictOCRFailure == 3

\* warningWriter.HasWarnings and HasOCRWarning on the lines written to it
HasWarnings(log)   == AnyContains(log, "Warning:")
HasOCRWarning(log) == AnyContains(log, "already has OCR")

\* pdfocr.DefaultConfig with the flags of the command line put in
CommandConfig(flags) ==
    [Strict |-> flags.strict, Force |-> flags.force, LogWarnings |-> TRUE,
     StartPage |-> flags.startPage, LayerName |-> "OCR Text"]

\* the bytes of the hOCR file as the hocrInput of the overlay operations
BytesInput(data) ==
    [kind |-> "bytes", isNil |-> FALSE, hocr |-> [Pages |-> << >>], data |-> data]

\* how the process ends: [exit, crashed, wrote, result]
Exit(code, result) ==
    [exit |-> code, crashed |-> FALSE, wrote |-> FALSE, result |-> result]

\* the process ends in an unrecovered panic: the Go runtime prints the
\* goroutine trace and exits with status 2
Crash == [exit |-> 2, crashed |-> TRUE, wrote |-> FALSE, result |-> Fail("")]

\* handleOCRApplicationMode from os.WriteFile on, with the result of the
\* overlay operation
WriteAndExit(files, result) ==
    IF ~files.writable THEN Exit(exitError, result)
    ELSE [Exit(IF HasOCRWarning(result.log) THEN exitSuccessWithWarns
               ELSE IF HasWarnings(result.log) THEN exitSuccessWithWarns
               ELSE exitSuccess, result)
             EXCEPT !.wrote = TRUE]

\* the -image-dir branch of handleOCRApplicationMode
ImageDirBranch(flags, files, result) ==
    IF result.err # "" THEN Exit(exitError, result) ELSE WriteAndExit(files, result)

\* the -pdf branch of handleOCRApplicationMode once ApplyOCR has returned
PdfBranch(flags, files, result) ==
    IF result.err # ""
    THEN Exit(IF Contains(result.err, "already has OCR") /\ flags.strict
              THEN exitStrictOCRFailure ELSE exitError, result)
    ELSE WriteAndExit(files, result)

\* an hOCR document of one page, one without a page element, and one whose
\* charset declaration is made of quotes
OnePageDocument == [declared |-> FALSE, after |-> "",
                    nodes |-> <<PageMarkup("ocr_page", 1)>>]
NoPageDocument  == [OnePageDocument EXCEPT !.nodes = <<PageMarkup("ocr_carea", 1)>>]
QuotedCharsetDocument ==
    [OnePageDocument EXCEPT !.declared = TRUE, !.after = "''''''''''''''''''''''"]

\* the hOCR documents a -hocr file can hold
HocrDocuments == {OnePageDocument, NoPageDocument, QuotedCharsetDocument}

\* the configurations the command lines give
CommandConfigs ==
    {CommandConfig([strict |-> strict, force |-> force, startPage |-> startPage]) :
        strict \in BOOLEAN, force \in BOOLEAN, startPage \in 0..1}

\* the directories of images the command reads
DirectoryImages == {<< >>, <<[id |-> 1, data |-> "png"]>>}

\* ParseHOCR, ApplyOCR, AssembleWithOCR and DetectOCR tabulated over the
\* files and the configurations of the command
ParsePanics == [data \in HocrDocuments |-> ParseHOCR(data).panic]
AppliedOf ==
    [pdf \in ApplyPDFs, data \in HocrDocuments, config \in CommandConfigs |->
        ApplyOCR(pdf, BytesInput(data), config)]
AssembledOf ==
    [data \in HocrDocuments, images \in DirectoryImages, config \in CommandConfigs |->
        AssembleWithOCR(BytesInput(data), images, config)]
DetectedOf == [pdf \in ApplyPDFs |-> DetectOCR(pdf, "OCR Text")]

\* handleOCRApplicationMode (-debug and -debug-pdf not given): the checks
\* of the flags and of the files, then the overlay operation, in which
\* ParseHOCR comes first
handleOCRApplicationMode(flags, files) ==
    IF flags.hocr = "" THEN Exit(exitError, Fail(""))
    ELSE IF flags.imageDir = "" /\ flags.pdf = "" THEN Exit(exitError, Fail(""))
    ELSE IF flags.output = "" THEN Exit(exitError, Fail(""))
    ELSE IF files.outputExists /\ ~flags.overwrite THEN Exit(exitError, Fail(""))
    ELSE IF ~files.hocr.readable THEN Exit(exitError, Fail(""))
    ELSE IF flags.imageDir = "" /\ ~files.pdf.readable THEN Exit(exitError, Fail(""))
    ELSE IF ParsePanics[files.hocr.data] THEN Crash
    ELSE IF flags.imageDir # ""
    THEN ImageDirBranch(flags, files,
             AssembledOf[files.hocr.data, files.images, CommandConfig(flags)])
    ELSE PdfBranch(flags, files,
             AppliedOf[files.pdf.data, files.hocr.data, CommandConfig(flags)])

\* handleCheckOCRMode once DetectOCR has returned
CheckBranch(result) ==
    IF result.err # "" THEN Exit(exitError, Fail(""))
    ELSE Exit(IF result.HasOCR THEN exitSuccessWithWarns ELSE exitSuccess, Fail(""))

\* handleCheckOCRMode
handleCheckOCRMode(flags, files) ==
    IF flags.pdf = "" THEN Exit(exitError, Fail(""))
    ELSE IF ~files.pdf.readable THEN Exit(exitError, Fail(""))
    ELSE CheckBranch(DetectedOf[files.pdf.data])

\* the file named by -hocr: unreadable, or one of the documents
HocrFiles ==
    {[readable |-> FALSE, data |-> NoPageDocument]}
        \cup {[readable |-> TRUE, data |-> d] :
                 d \in HocrDocuments}

\* the file named by -pdf: unreadable, or one of the PDFs
PdfFiles ==
    {[readable |-> FALSE, data |-> ""]}
        \cup {[readable |-> TRUE, data |-> pdf] : pdf \in ApplyPDFs}

\* the command lines of the application mode: the paths are given or not
CommandLines ==
    [hocr : {"", "document.hocr"}, pdf : {"", "document.pdf"},
     imageDir : {"", "images"}, output : {"", "searchable.pdf"},
     startPage : 0..1, force : BOOLEAN, strict : BOOLEAN, overwrite : BOOLEAN,
     checkOCR : {FALSE}]

\* the command lines of the -check-ocr mode
CheckCommandLines ==
    [hocr : {""}, pdf : {"", "document.pdf"}, imageDir : {""}, output : {""},
     startPage : {1}, force : {FALSE}, strict : {FALSE}, overwrite : {FALSE},
     checkOCR : {TRUE}]

\* what the command finds on the disk
FileSystems ==
    [hocr : HocrFiles, pdf : PdfFiles, images : DirectoryImages,
     outputExists : BOOLEAN, writable : BOOLEAN]

\* a path that is not given names no file: what the disk holds there is
\* never looked at
NamedFilesOnly(flags, files) ==
    /\ flags.hocr = "" => ~files.hocr.readable
    /\ flags.pdf = "" => ~files.pdf.readable
    /\ flags.imageDir = "" => files.images = << >>
    /\ flags.output = "" => (~files.outputExists /\ ~files.writable)

IsCommand == call.op = "pdfocr"

\* main without -check-ocr: the command is run in the application mode
RunOCRApplicationMode ==
    /\ call.op = "none"
    /\ \E flags \in CommandLines, files \in FileSystems :
           /\ NamedFilesOnly(flags, files)
           /\ ~flags.checkOCR
           /\ call' = [op |-> "pdfocr", flags |-> flags, files |-> files]
           /\ ret' = handleOCRApplicationMode(flags, files)

\* main with -check-ocr
RunCheckOCRMode ==
    /\ call.op = "none"
    /\ \E flags \in CheckCommandLines, files \in FileSystems :
           /\ NamedFilesOnly(flags, files)
           /\ flags.checkOCR
           /\ call' = [op |-> "pdfocr", flags |-> flags, files |-> files]
           /\ ret' = handleCheckOCRMode(flags, files)

NextCommand == RunOCRApplicationMode \/ RunCheckOCRMode

SpecCommand == Init /\ [][NextCommand]_vars

\* the run is in -pdf mode: ApplyOCR was or would be called
PdfMode == IsCommand /\ ~call.flags.checkOCR /\ call.flags.imageDir = ""

\* what DetectOCR says about the PDF of the run
OCRDetected ==
    call.files.pdf.readable /\ DetectedOf[call.files.pdf.data].HasOCR

\* the run wrote the output PDF
Completed == ret.wrote

\* ApplyOCR was called and stopped at the existing OCR
StrictAbort ==
    /\ ~ret.crashed
    /\ HasPrefix(ret.result.err, "file already has OCR")
    /\ call.flags.strict /\ ~call.flags.force

\* C21: the exit codes of the command.  In -pdf mode: 3 when ApplyOCR
\* stopped at existing OCR under -strict without -force, 2 whenever existing
\* OCR was detected and the run completed, 0 only when the run completed
\* and no warning was logged, 1 for every other failure.  With -check-ocr:
\* 2 exactly when OCR was detected and 0 otherwise.
C21_ExitCodes ==
    /\ PdfMode =>
          /\ StrictAbort => ret.exit = exitStrictOCRFailure
          /\ (OCRDetected /\ Completed) => ret.exit = exitSuccessWithWarns
          /\ ret.exit = exitSuccess =>
                 (Completed /\ ~HasWarnings(ret.result.log))
          /\ (~Completed /\ ~StrictAbort) => ret.exit = exitError
    /\ (IsCommand /\ call.flags.checkOCR) =>
          /\ ret.exit = exitSuccessWithWarns <=> OCRDetected
          /\ ~OCRDetected => ret.exit = exitSuccess

(***************************************************************************)
(* The overlay operations, page by page                                    *)
(***************************************************************************)

\* the positions in the model of the pages the operation has drawn
DrawnPages ==
    {n \in Indices(Resolved.hocr.Pages) :
        \E k \in Indices(ret.built) : ret.built[k].model = Resolved.hocr.Pages[n].ID}

\* drawOCRLayer reported the encoding error for a page the operation drew
EncodingErrorReported ==
    \E n \in DrawnPages :
        drawOCRLayer(Resolved.hocr.Pages[n], call.config.LayerName, n).err # ""

\* C22: whenever drawOCRLayer reports the encoding error for a page that
\* ApplyOCR or AssembleWithOCR draws, the operation returns an error and no
\* bytes.
C22_EncodingErrorSurfaced ==
    ((IsApply \/ IsAssemble) /\ ret.started /\ EncodingErrorReported) =>
        /\ ret.err # ""
        /\ ret.out = NilBytes

(***************************************************************************)
(* The order of the words of a page                                        *)
(***************************************************************************)

\* the words of a paragraph in the order the template of
\* GenerateHOCRDocument writes them and extractParagraphText emits them:
\* the words of its lines, then the words directly in it
ParagraphDocumentWords(par) == LineWords(par.Lines) \o par.Words

\* the words of an area in that order: the words of its paragraphs, of its
\* lines, then the words directly in it
AreaDocumentWords(area) ==
    Flatten([n \in Indices(area.Paragraphs) |-> ParagraphDocumentWords(area.Paragraphs[n])])
        \o LineWords(area.Lines) \o area.Words

\* the words of a page in that order: areas, paragraphs, lines
DocumentWords(page) ==
    Flatten([n \in Indices(page.Areas) |-> AreaDocumentWords(page.Areas[n])])
        \o Flatten([n \in Indices(page.Paragraphs) |->
                       ParagraphDocumentWords(page.Paragraphs[n])])
        \o LineWords(page.Lines)

\* C23: drawOCRLayer draws the words of a page in the order in which
\* GenerateHOCRDocument writes them and ExtractHOCRText emits them.
C23_DrawnInDocumentOrder ==
    IsDraw => ret.drawn = DocumentWords(call.page)

\* ApplyOCR gets past its validation and the Strict/Force decision
ApplyProceeds ==
    /\ IsApply
    /\ HocrAndStartValid
    /\ Len(call.pdf) > 0
    /\ ~(ExistingLayerFound /\ call.config.Strict /\ ~call.config.Force)

ExtraValue(key) == IF key = "x_size" THEN "12 3" ELSE "90"

\* the Metadata map holds every key of the set keys with its values
HoldsExtras(metadata, keys) ==
    \A key \in keys : key \in DOMAIN metadata /\ metadata[key] = ExtraValue(key)

\* the area, the paragraph, the line and the word of the parsed document
ParsedArea      == ret.hocr.Pages[1].Areas[1]
ParsedParagraph == ParsedArea.Paragraphs[1]
ParsedLine      == ParsedParagraph.Lines[1]
ParsedWord      == ParsedLine.Words[1]

\* C25: every key of a title attribute that is not read into a field lands
\* in the Metadata map of the element that carries it, with its values
\* joined by single spaces: for the page, the area, the paragraph, the line
\* and the word.
C25_OtherKeysInMetadata ==
    \A keys \in SUBSET ExtraKeys :
        (IsParse /\ call.data = TitledDocument(keys)) =>
            /\ HoldsExtras(ret.hocr.Pages[1].Metadata, keys)
            /\ HoldsExtras(ParsedArea.Metadata, keys)
            /\ HoldsExtras(ParsedParagraph.Metadata, keys)
            /\ HoldsExtras(ParsedLine.Metadata, keys)
            /\ HoldsExtras(ParsedWord.Metadata, keys)

(***************************************************************************)
(* Where the layer names come from                                         *)
(***************************************************************************)

\* the bytes of the PDF hold no optional-content group: every spelling of a
\* declaration of one has the name /OCG or /OCGs in it
NoGroupDeclared == ~Contains(call.pdf, "/OCG")

\* C26: a PDF that declares no optional-content group has no layer names,
\* and DetectOCR does not report OCR for it: a name that stands in a
\* document title only is no layer name.
C26_NamesFromGroupsOnly ==
    (IsDetect /\ NoGroupDeclared) =>
        /\ ret.LayerInfo.Layers = << >>
        /\ ~ret.HasOCR

(***************************************************************************)
(* The canvas of a page and the place of its words                         *)
(***************************************************************************)

\* the page at the position n of the model is the one the page k of the
\* operation was built from
BuiltFrom(k, n) == ret.built[k].model = Resolved.hocr.Pages[n].ID

\* the corners X1, Y1 of the words of a page, in the order they are drawn
Corners(page) ==
    [n \in Indices(DrawnWords(page)) |->
        [x |-> [num |-> DrawnWords(page)[n].BBox.X1, den |-> 1],
         y |-> [num |-> DrawnWords(page)[n].BBox.Y1, den |-> 1]]]

\* C27: both overlay operations make the canvas of a page as wide and as
\* high as the box of the model page, X2 - X1 by Y2 - Y1, and
\* AssembleWithOCR places every word where its box has it: the coordinate
\* mapping is the identity, for a page without a box too.
C27_CanvasIsTheBox ==
    (IsApply \/ IsAssemble) =>
        \A k \in Indices(ret.built), n \in Indices(Resolved.hocr.Pages) :
            BuiltFrom(k, n) =>
                /\ ret.built[k].Wd = Resolved.hocr.Pages[n].BBox.X2
                                         - Resolved.hocr.Pages[n].BBox.X1
                /\ ret.built[k].Ht = Resolved.hocr.Pages[n].BBox.Y2
                                         - Resolved.hocr.Pages[n].BBox.Y1
                /\ IsAssemble => ret.built[k].placed = Corners(Resolved.hocr.Pages[n])

(***************************************************************************)
(* ParseHOCR on every input                                                *)
(***************************************************************************)

\* C28: ParseHOCR returns a model or an error for every input and never
\* ends in a run-time panic, wherever "charset=" stands with respect to the
\* end of the input and whatever follows it.
C28_ParseNeverPanics ==
    IsParse => ~ret.panic

(***************************************************************************)
(* The layer drawOCRLayer creates, declared in a PDF and detected          *)
(***************************************************************************)

\* the largest page number a layer is created for
MaxPageNumber == 12

\* base layer names: those of the configurations, one with a pair of
\* parentheses and one with an opening parenthesis
LayerNames == BaseNames \cup {"Scan (OCR)", "Layer (v2"}

\* a PDF literal string: the backslash and the parentheses are escaped
EscapeLiteral(s) ==
    ReplaceAll(ReplaceAll(ReplaceAll(s, "\\", "\\\\"), "(", "\\("), ")", "\\)")

\* a PDF that declares the optional-content group of the name layer
DeclaringPDF(layer) == PDFHeader \o "<</Type /OCG /Name (" \o EscapeLiteral(layer) \o ")>>\n"

\* a page without words, and a model of one such page
BlankPage == [ID |-> 1, BBox |-> BBoxOf(600, 800), Areas |-> << >>,
              Paragraphs |-> << >>, Lines |-> << >>]
BlankModel == [kind |-> "struct", isNil |-> FALSE, hocr |-> [Pages |-> <<BlankPage>>],
               data |-> << >>]

\* drawOCRLayer creates the layer of a page and the PDF is written
WriteLayer ==
    /\ call.op = "none"
    /\ \E layerName \in LayerNames, pageNum \in 1..MaxPageNumber :
           /\ call' = [op |-> "drawOCRLayer", layerName |-> layerName, pageNum |-> pageNum]
           /\ ret' = [layer |-> drawOCRLayer(BlankPage, layerName, pageNum).layer,
                      pdf   |-> DeclaringPDF(drawOCRLayer(BlankPage, layerName, pageNum).layer)]

\* DetectOCR is run on the written PDF with the layer name it was made with
DetectWritten ==
    /\ call.op = "drawOCRLayer"
    /\ call' = [NoCall EXCEPT !.op = "DetectOCR", !.pdf = ret.pdf,
                              !.config.LayerName = call.layerName]
    /\ ret' = DetectOCR(ret.pdf, call.layerName)

\* ApplyOCR is run on the written PDF with the layer name it was made with
ApplyWritten ==
    /\ call.op = "drawOCRLayer"
    /\ \E strict \in BOOLEAN, force \in BOOLEAN :
           LET config == [NoCall.config EXCEPT !.Strict = strict, !.Force = force,
                                               !.LayerName = call.layerName]
           IN  /\ call' = [NoCall EXCEPT !.op = "ApplyOCR", !.pdf = ret.pdf,
                                         !.hocrInput = BlankModel, !.config = config]
               /\ ret' = ApplyOCR(ret.pdf, BlankModel, config)

NextLayers == WriteLayer \/ DetectWritten \/ ApplyWritten

SpecLayers == Init /\ [][NextLayers]_vars

\* C29: the layer drawOCRLayer creates for a base layer name and a page
\* number, declared in a PDF as the name of an optional-content group, makes
\* DetectOCR with that base layer name report OCR; ApplyOCR with Strict and
\* without Force on such a PDF stops at the existing OCR.
C29_CreatedLayerDetected ==
    /\ IsDetect => ret.HasOCR
    /\ (IsApply /\ call.config.Strict /\ ~call.config.Force) =>
           (~ret.started /\ HasPrefix(ret.err, "file already has OCR"))

(***************************************************************************)
(* gdocai: the model page of a recognition result's page                   *)
(***************************************************************************)

\* the largest numbers of blocks, paragraphs and lines of a page
MaxBlocks     == 2
MaxParagraphs == 2
MaxLines      == 2

\* a layout without a text anchor, and one whose first segment is start..end
NoAnchor == [TextAnchor |-> [isNil |-> TRUE, StartIndex |-> 0, EndIndex |-> 0]]
Anchored(start, end) ==
    [TextAnchor |-> [isNil |-> FALSE, StartIndex |-> start, EndIndex |-> end]]

\* isElementInParent: both anchors are there and the element's first
\* segment lies within the parent's
isElementInParent(elementLayout, parentLayout) ==
    IF elementLayout.TextAnchor.isNil \/ parentLayout.TextAnchor.isNil
    THEN FALSE
    ELSE /\ elementLayout.TextAnchor.StartIndex >= parentLayout.TextAnchor.StartIndex
         /\ elementLayout.TextAnchor.EndIndex <= parentLayout.TextAnchor.EndIndex

\* getLayoutKey: "<start>-<end>" of the first segment, "" without an anchor
getLayoutKey(layout) ==
    IF layout.TextAnchor.isNil THEN ""
    ELSE Itoa(layout.TextAnchor.StartIndex) \o "-" \o Itoa(layout.TextAnchor.EndIndex)

\* the positions (from 0) of the layouts that lie within parentLayout, in order
Within(layouts, parentLayout) ==
    LET inParent(i) == isElementInParent(layouts[i + 1], parentLayout)
    IN  SelectSeq([i \in 1..Len(layouts) |-> i - 1], inParent)

\* convertLineFromProto: the identifier of the line and the positions of
\* its tokens
convertLineFromProto(page, blockIdx, paraIdx, lineIdx) ==
    [ID    |-> <<blockIdx, paraIdx, lineIdx>>,
     Words |-> Within(page.Tokens, page.Lines[lineIdx + 1])]

\* the lines within the paragraph at pidx, converted under blockIdx
ParagraphLines(page, blockIdx, pidx) ==
    LET lines == Within(page.Lines, page.Paragraphs[pidx + 1])
    IN  [k \in 1..Len(lines) |-> convertLineFromProto(page, blockIdx, pidx, lines[k])]

\* the content area of the block at aidx: the paragraphs within it
AreaOfBlock(page, aidx) ==
    LET paras == Within(page.Paragraphs, page.Blocks[aidx + 1])
    IN  [ID         |-> aidx,
         Paragraphs |-> [k \in 1..Len(paras) |->
                            [ID    |-> <<aidx, paras[k]>>,
                             Lines |-> ParagraphLines(page, aidx, paras[k])]]]

\* the paragraph at pidx lies within some block
isAssigned(page, pidx) ==
    \E b \in 1..Len(page.Blocks) :
        isElementInParent(page.Paragraphs[pidx + 1], page.Blocks[b])

\* assignedLines: the keys of the lines within some paragraph (every
\* paragraph is visited, under its blocks or as a direct paragraph)
assignedLines(page) ==
    {getLayoutKey(page.Lines[l]) : l \in
        {l \in 1..Len(page.Lines) :
            \E p \in 1..Len(page.Paragraphs) :
                isElementInParent(page.Lines[l], page.Paragraphs[p])}}

\* CreateHOCRPage: areas from blocks, then the paragraphs of no block,
\* then the lines whose key was not assigned
CreateHOCRPage(page) ==
    LET notAssigned(pidx) == ~isAssigned(page, pidx)
        direct == SelectSeq([i \in 1..Len(page.Paragraphs) |-> i - 1], notAssigned)
        unassigned(lidx) == getLayoutKey(page.Lines[lidx + 1]) \notin assignedLines(page)
        loose == SelectSeq([i \in 1..Len(page.Lines) |-> i - 1], unassigned)
    IN  [Areas      |-> [a \in 1..Len(page.Blocks) |-> AreaOfBlock(page, a - 1)],
         Paragraphs |-> [k \in 1..Len(direct) |->
                            [ID    |-> <<"direct", direct[k]>>,
                             Lines |-> ParagraphLines(page, 0, direct[k])]],
         Lines      |-> [k \in 1..Len(loose) |->
                            convertLineFromProto(page, 0, 0, loose[k])],
         err        |-> ""]

\* the layouts of the pages: no anchor, the whole text, its halves
Layouts == {NoAnchor, Anchored(0, 4), Anchored(0, 2), Anchored(2, 4)}

\* the sequences of at most n layouts
LayoutSeqs(n) == UNION {[1..k -> Layouts] : k \in 0..n}

\* the tokens of every page: one in each half of the text
PageTokens == <<Anchored(0, 2), Anchored(2, 4)>>

\* CreateHOCRPage is called on a page of the recognition result
CallCreateHOCRPage ==
    /\ call.op = "none"
    /\ \E blocks \in LayoutSeqs(MaxBlocks), paragraphs \in LayoutSeqs(MaxParagraphs),
          lines \in LayoutSeqs(MaxLines) :
           LET page == [Blocks |-> blocks, Paragraphs |-> paragraphs,
                        Lines |-> lines, Tokens |-> PageTokens]
           IN  /\ call' = [op |-> "CreateHOCRPage", page |-> page]
               /\ ret' = CreateHOCRPage(page)

SpecGdocai == Init /\ [][CallCreateHOCRPage]_vars

IsCreatePage == call.op = "CreateHOCRPage"

\* the lines of a sequence of paragraphs, one after the other
LinesOfParagraphs(paragraphs) ==
    Flatten([k \in 1..Len(paragraphs) |-> paragraphs[k].Lines])

\* every line of the model page: those of the areas' paragraphs, those of
\* the page's paragraphs, those of the page
PlacedLines(modelPage) ==
    Flatten([a \in 1..Len(modelPage.Areas) |->
                LinesOfParagraphs(modelPage.Areas[a].Paragraphs)])
        \o LinesOfParagraphs(modelPage.Paragraphs) \o modelPage.Lines

\* the number of places the model page holds the line at lidx in
Placements(modelPage, lidx) ==
    Cardinality({k \in 1..Len(PlacedLines(modelPage)) :
                    PlacedLines(modelPage)[k].ID[3] = lidx})

\* C30: every line of the page is in the model page exactly once, under
\* one paragraph or directly under the page, whatever the text anchors of
\* the blocks, paragraphs and lines are.
C30_EveryLineOnce ==
    IsCreatePage =>
        \A l \in 1..Len(call.page.Lines) : Placements(ret, l - 1) = 1

====
